---- MODULE Spec2Model ----
(***************************************************************************)
(* NostrYears: the activity-aggregation engine.                            *)
(*                                                                         *)
(*   Spec         fetchNostrYearsStats: the three retrieval phases, the    *)
(*                progress callback and the accumulation of the snapshot   *)
(*   SpecScoring  calculateFriendScores on bounded interaction data        *)
(*   SpecReconciler  fetchOwnNostrYearsEventWithRelays and the cache       *)
(*                lookup of fetchStats over bounded published records      *)
(*   SpecCache    useNostrStats.fetchStats / reset, invocations in flight  *)
(*   SpecCalls    the pure functions and handlers (scoring, percentile,    *)
(*                input form, publisher, text analysis) on bounded         *)
(*                arguments                                                *)
(*   SpecAccumulate  the processing step of fetchNostrYearsStats on        *)
(*                bounded lists of own, incoming and sent-zap events       *)
(*   SpecProgress  the for-await loop of fetchWithProgress on any number   *)
(*                of yielded events                                        *)
(*   SpecLifecycle  initFetcher / shutdownFetcher and the invocations of   *)
(*                fetchNostrYearsStats that hold the fetcher               *)
(***************************************************************************)
EXTENDS Integers, Sequences, FiniteSets, TLC

VARIABLES
    \* ---- fetchNostrYearsStats (src/src/services/nostrFetcher.ts) ----
    pc,                 \* position of the async function
    profileState,       \* the profilePromise: its state and its value
    phaseSt,            \* per retrieval phase: "idle" | "open" | "exhausted" | "failed"
    collected,          \* events the open query has yielded so far (events[])
    ownEvents, incomingEvents, sentZaps,
    lastProgressUpdate, \* fetchWithProgress's throttle register (scaled)
    emitted,            \* every FetchProgress handed to onProgress (scaled)
    delivered,          \* history: per phase, the <<relay, id>> deliveries
    stats,              \* the returned NostrYearsStats, or Null
    interaction,        \* the four Map<string, number> of the invocation
    localTz,            \* the running environment's local UTC offset, minutes
    \* ---- calculateFriendScores (src/src/utils/scoring.ts) ----
    scoreInput,         \* InteractionData handed to calculateFriendScores
    scoreOut,           \* its result, and the stored top-10 slice
    scoreDone,
    \* ---- useNostrStats (src/src/main.tsx) and the reconciler ----
    published,          \* the subject's kind-30078 records held by the relays
    request,            \* relays / period the form submits
    lookup,             \* outcome of the cache check of fetchStats
    hook,               \* React state: stats, isLoading, error, isFromCache
    skipCacheRef,
    inv,                \* the fetchStats invocations in flight
    \* ---- functions applied to drawn arguments ----
    call,               \* the function called and its arguments
    result,             \* what it returned, or Null
    \* ---- the fetcher singleton (src/src/services/nostrFetcher.ts) ----
    fetcher,            \* the module variable: an instance, or NoFetcher
    instances,          \* per NostrFetcher instance: "none" | "live" | "shutdown"
    runs,               \* fetchNostrYearsStats invocations: position and f
    summaryShown,       \* stats is set: the summary view offers reset()
    retrievals          \* history: the retrieval calls, and whether the
                        \* instance was live when the call was made

fetchVars == <<pc, profileState, phaseSt, collected, ownEvents,
               incomingEvents, sentZaps, lastProgressUpdate, emitted,
               delivered, stats, interaction, localTz>>
scoreVars == <<scoreInput, scoreOut, scoreDone>>
cacheVars == <<published, request, lookup, hook, skipCacheRef, inv>>
callVars == <<call, result>>
fetcherVars == <<fetcher, instances, runs, summaryShown, retrievals>>
vars == <<fetchVars, scoreVars, cacheVars, callVars, fetcherVars>>

----------------------------------------------------------------------------
(* Generic helpers                                                         *)

Range(s) == {s[i] : i \in 1..Len(s)}

Abs(x) == IF x < 0 THEN -x ELSE x

Min(a, b) == IF a <= b THEN a ELSE b

\* Array.prototype.slice(0, n)
Slice(s, n) == SubSeq(s, 1, Min(n, Len(s)))

\* All sequences without repetition over the set S
RECURSIVE Perms(_)
Perms(S) ==
    IF S = {} THEN {<<>>}
    ELSE UNION {{<<x>> \o p : p \in Perms(S \ {x})} : x \in S}

----------------------------------------------------------------------------
(* Map<string, number>: a sequence of [key, count] in insertion order,     *)
(* which is the order Map.entries() and Map.keys() iterate in.             *)

MapHas(m, k) == \E i \in 1..Len(m) : m[i].key = k

MapGet(m, k) ==
    IF MapHas(m, k) THEN m[CHOOSE i \in 1..Len(m) : m[i].key = k].count ELSE 0

MapKeys(m) == [i \in 1..Len(m) |-> m[i].key]

\* the map as a set of pairs, forgetting the insertion order
MapAsSet(m) == {<<m[i].key, m[i].count>> : i \in 1..Len(m)}

addToCountMap_Overwrite(map, key) ==
    IF MapHas(map, key)
    THEN [i \in 1..Len(map) |->
            IF map[i].key = key THEN [key |-> key, count |-> 1] ELSE map[i]]
    ELSE Append(map, [key |-> key, count |-> 1])

addToCountMap(map, key) ==
    IF MapHas(map, key)
    THEN [i \in 1..Len(map) |->
            IF map[i].key = key
            THEN [key |-> key, count |-> map[i].count + 1]
            ELSE map[i]]
    ELSE Append(map, [key |-> key, count |-> 1])

----------------------------------------------------------------------------
(* Text analysis (src/src/utils/textAnalysis.ts).                          *)
(*                                                                         *)
(* A text is a sequence of tokens.  "H" is the seven characters "http://", *)
(* "P" the four characters ".png", "Q" the character "?", " " a white      *)
(* space, "<" a character URL_PATTERN excludes, and "a" any other          *)
(* character.                                                              *)

TokenWidth(t) == CASE t = "H" -> 7 [] t = "P" -> 4 [] OTHER -> 1

\* [^\s<>"{}|\\^`[\]] of URL_PATTERN
UrlChar(t) == t \notin {" ", "<"}

\* the last index of the match of [^\s<>...]+ that starts at i
RECURSIVE UrlEnd(_, _)
UrlEnd(text, i) ==
    IF i < Len(text) /\ UrlChar(text[i + 1]) THEN UrlEnd(text, i + 1) ELSE i

\* URL_PATTERN matches at i: "http://" followed by at least one URL character
UrlStartsAt(text, i) ==
    /\ text[i] = "H"
    /\ i < Len(text)
    /\ UrlChar(text[i + 1])

\* the successive matches of the global URL_PATTERN, as <<first, last>>
RECURSIVE UrlMatches(_, _)
UrlMatches(text, i) ==
    IF i > Len(text) THEN <<>>
    ELSE IF UrlStartsAt(text, i)
         THEN <<(<<i, UrlEnd(text, i)>>)>> \o UrlMatches(text, UrlEnd(text, i) + 1)
         ELSE UrlMatches(text, i + 1)

InMatch(ms, i) == \E k \in 1..Len(ms) : ms[k][1] <= i /\ i <= ms[k][2]

\* String.prototype.trim on tokens
RECURSIVE TrimLeft(_)
TrimLeft(text) ==
    IF text # <<>> /\ Head(text) = " " THEN TrimLeft(Tail(text)) ELSE text

RECURSIVE TrimRight(_)
TrimRight(text) ==
    IF text # <<>> /\ text[Len(text)] = " "
    THEN TrimRight(SubSeq(text, 1, Len(text) - 1))
    ELSE text

Trim(text) == TrimRight(TrimLeft(text))

RECURSIVE KeepOutside(_, _, _)
KeepOutside(text, ms, i) ==
    IF i > Len(text) THEN <<>>
    ELSE IF InMatch(ms, i) THEN KeepOutside(text, ms, i + 1)
    ELSE <<text[i]>> \o KeepOutside(text, ms, i + 1)

removeUrls(text) == Trim(KeepOutside(text, UrlMatches(text, 1), 1))

RECURSIVE TextLength(_)
TextLength(text) ==
    IF text = <<>> THEN 0 ELSE TokenWidth(Head(text)) + TextLength(Tail(text))

countCharsWithoutUrls_KeepUrls(text) == TextLength(Trim(text))

countCharsWithoutUrls(text) == TextLength(removeUrls(text))

\* IMAGE_EXTENSIONS.test(url): an extension at the end, or before a query
IsImageUrl(url) ==
    \E i \in 1..Len(url) :
        url[i] = "P" /\ (i = Len(url) \/ url[i + 1] = "Q")

extractImageUrls(text) ==
    LET ms   == UrlMatches(text, 1)
        urls == [k \in 1..Len(ms) |-> SubSeq(text, ms[k][1], ms[k][2])]
    IN  SelectSeq(urls, IsImageUrl)

countImages(text) == Len(extractImageUrls(text))

\* a tag is a sequence of strings; tag[0] of the source is tag[1] here
TagIs(tag, name) == Len(tag) >= 2 /\ tag[1] = name /\ tag[2] # ""

IsPTag(tag) == TagIs(tag, "p")

extractPubkeysFromTags(tags) ==
    LET ps == SelectSeq(tags, IsPTag) IN [i \in 1..Len(ps) |-> ps[i][2]]

isReply(tags) == \E i \in 1..Len(tags) : TagIs(tags[i], "e")

\* tags.find(t => t[0] === name): the first such tag, or <<>> for undefined
TagsFind(tags, name) ==
    IF \E i \in 1..Len(tags) : Len(tags[i]) >= 1 /\ tags[i][1] = name
    THEN tags[CHOOSE i \in 1..Len(tags) :
                /\ Len(tags[i]) >= 1 /\ tags[i][1] = name
                /\ \A j \in 1..(i - 1) : ~(Len(tags[j]) >= 1 /\ tags[j][1] = name)]
    ELSE <<>>

----------------------------------------------------------------------------
(* Scoring (src/src/utils/scoring.ts).  A balance score is the exact       *)
(* fraction num/den of the double the source computes.                     *)

calculateBalanceScore_NoAbs(outgoing, incoming) ==
    LET total == outgoing + incoming
        diff  == outgoing - incoming
    IN  IF total = 0 THEN [num |-> 0, den |-> 1]
        ELSE [num |-> total - diff, den |-> total]

calculateBalanceScore(outgoing, incoming) ==
    LET total == outgoing + incoming
        diff  == Abs(outgoing - incoming)
    IN  IF total = 0 THEN [num |-> 0, den |-> 1]
        ELSE [num |-> total - diff, den |-> total]

\* the sign of b.balanceScore - a.balanceScore
BalanceDiff(b, a) == b.num * a.den - a.num * b.den

\* the comparator of scores.sort(...)
CompareScores(a, b) ==
    IF b.outgoingReactions # a.outgoingReactions
    THEN b.outgoingReactions - a.outgoingReactions
    ELSE BalanceDiff(b.balanceScore, a.balanceScore)

\* the comparators handed to Array.prototype.sort, by call site
Compare(site, a, b) ==
    CASE site = "scores"  -> CompareScores(a, b)
      [] site = "posts"   -> b.reactionCount - a.reactionCount
      [] site = "emojis"  -> b.count - a.count
      [] site = "hours"   -> a.hour - b.hour
      [] site = "months"  ->
            \* a.month.localeCompare(b.month) on "YYYY-MM"
            IF a.month[1] # b.month[1] THEN a.month[1] - b.month[1]
            ELSE a.month[2] - b.month[2]
      [] site = "created" -> b.created_at - a.created_at
      [] site = "strings" -> a - b
      [] site = "numbers" -> a - b
      [] site = "recent"  -> b.createdAt - a.createdAt

\* Array.prototype.sort is stable: an element comes after exactly those the
\* comparator puts before it and those it does not separate from it that
\* precede it in the input.
SortPosition(s, x, site) ==
    1 + Cardinality({j \in 1..Len(s) :
                        \/ Compare(site, s[j], s[x]) < 0
                        \/ Compare(site, s[j], s[x]) = 0 /\ j < x})

Sort(s, site) ==
    LET a   == <<>> \o s
        pos == <<>> \o [i \in 1..Len(a) |-> SortPosition(a, i, site)]
    IN  <<>> \o [k \in 1..Len(a) |-> a[CHOOSE i \in 1..Len(a) : pos[i] = k]]

\* new Set([...a, ...b]): the distinct elements in first-seen order
UniqueInOrder(s) ==
    LET a      == <<>> \o s
        firsts == {i \in 1..Len(a) : \A j \in 1..(i - 1) : a[j] # a[i]}
    IN  <<>> \o [k \in 1..Cardinality(firsts) |->
                    a[CHOOSE i \in firsts : Cardinality({j \in firsts : j <= i}) = k]]

FriendScoreOf(data, pubkey) ==
    LET outR == MapGet(data.outgoingReactions, pubkey)
        outP == MapGet(data.outgoingReplies, pubkey)
        inR  == MapGet(data.incomingReactions, pubkey)
        inP  == MapGet(data.incomingReplies, pubkey)
    IN  [pubkey            |-> pubkey,
         outgoingReactions |-> outR,
         outgoingReplies   |-> outP,
         incomingReactions |-> inR,
         incomingReplies   |-> inP,
         balanceScore      |-> calculateBalanceScore(outR + outP, inR + inP)]

\* if (outgoingReactions === 0) continue;
Eligible_NoFilter(score) == TRUE

Eligible(score) == score.outgoingReactions # 0

SortScores_Unsorted(scores) == scores

SortScores(scores) == Sort(scores, "scores")

calculateFriendScores(data) ==
    LET allPubkeys == UniqueInOrder(MapKeys(data.outgoingReactions)
                                    \o MapKeys(data.outgoingReplies)
                                    \o MapKeys(data.incomingReactions)
                                    \o MapKeys(data.incomingReplies))
        all    == [i \in 1..Len(allPubkeys) |-> FriendScoreOf(data, allPubkeys[i])]
        scores == SelectSeq(all, Eligible)
    IN  SortScores(scores)

\* .slice(0, 10) of the friends ranking
TopFriends == 10

friendsRankingOf(data) == Slice(calculateFriendScores(data), TopFriends)

----------------------------------------------------------------------------
(* SpecScoring: calculateFriendScores applied to bounded InteractionData.  *)
(* Identities are numbered 1..NumIds.  The first NumIds - NumFree have     *)
(* fixed counts (among them identity 4: no reaction sent, 100 replies      *)
(* received); the counts of the last NumFree are drawn freely.             *)

NumIds == 14

NumFree == 2

FixedCounts(i) ==
    [outR |-> i % 4,
     outP |-> (i \div 4) % 2,
     inR  |-> (2 * i) % 3,
     inP  |-> IF i = 4 THEN 100 ELSE i % 2]

FreeCounts == [outR : 0..3, outP : {0, 1}, inR : {0, 2}, inP : {0}]

FreeIds == (NumIds - NumFree + 1)..NumIds

\* a count map as addToCountMap builds it: only keys with a count >= 1
CountMapOf(counts, field, order) ==
    LET Counted(i) == counts[i][field] > 0
        keys == SelectSeq(order, Counted)
    IN  <<>> \o [k \in 1..Len(keys) |->
                    [key |-> keys[k], count |-> counts[keys[k]][field]]]

InteractionDataOf(counts, order) ==
    [outgoingReactions |-> CountMapOf(counts, "outR", order),
     outgoingReplies   |-> CountMapOf(counts, "outP", order),
     incomingReactions |-> CountMapOf(counts, "inR", order),
     incomingReplies   |-> CountMapOf(counts, "inP", order)]

NoScore == [scores |-> <<>>, ranking |-> <<>>]

ScoreParked ==
    /\ scoreInput = [counts |-> <<>>, data |-> InteractionDataOf(<<>>, <<>>)]
    /\ scoreOut = NoScore
    /\ scoreDone = FALSE

ScoreInit ==
    /\ \E free \in [FreeIds -> FreeCounts], reversed \in BOOLEAN :
          LET counts == [i \in 1..NumIds |->
                            IF i \in FreeIds THEN free[i] ELSE FixedCounts(i)]
              order  == [i \in 1..NumIds |-> IF reversed THEN NumIds + 1 - i ELSE i]
          IN  scoreInput = [counts |-> counts,
                            data   |-> InteractionDataOf(counts, order)]
    /\ scoreOut = NoScore
    /\ scoreDone = FALSE

\* stats.friendsRanking = calculateFriendScores({...}).slice(0, 10)
Score ==
    /\ ~scoreDone
    /\ scoreOut' = [scores  |-> calculateFriendScores(scoreInput.data),
                    ranking |-> friendsRankingOf(scoreInput.data)]
    /\ scoreDone' = TRUE
    /\ UNCHANGED scoreInput

----------------------------------------------------------------------------
(* The reconciler (the publisher module with per-configuration d-tags)     *)
(* and the cache check of useNostrStats.fetchStats.                        *)
(* A relay URL is a number; the order of the numbers is the code-unit      *)
(* order of the URL strings, which the default Array.prototype.sort uses.  *)

NOSTR_YEARS_VERSION == 3

Null == [null |-> TRUE]

arraysEqual_Subset(a, b) == Range(a) \subseteq Range(b)

arraysEqual(a, b) ==
    IF Len(a) # Len(b) THEN FALSE
    ELSE LET sortedA == Sort(a, "strings")
             sortedB == Sort(b, "strings")
         IN  \A idx \in 1..Len(sortedA) : sortedA[idx] = sortedB[idx]

\* fetcher.fetchAllEvents(relays, filter, {}, { sort: true }): newest first
fetchAllEventsSorted(events, tag) ==
    LET matching == {e \in events : e[tag]}
        anyOrder == CHOOSE q \in Perms(matching) : TRUE
    IN  Sort(anyOrder, "created")

\* eventMap: the first event of each id, in insertion order
RECURSIVE MergeById(_, _)
MergeById(events, acc) ==
    IF events = <<>> THEN acc
    ELSE MergeById(Tail(events),
                   IF \E i \in 1..Len(acc) : acc[i].id = Head(events).id
                   THEN acc ELSE Append(acc, Head(events)))

\* JSON.parse succeeded and (content.version && content.period)
ContentUsable(e) == e.json /\ e.content.version # 0 /\ e.content.hasPeriod

fetchOwnNostrYearsEvents(events, queryFails) ==
    IF queryFails THEN <<>>
    ELSE LET oldEvents == fetchAllEventsSorted(events, "dTagOld")
             newEvents == fetchAllEventsSorted(events, "tTag")
             merged    == MergeById(oldEvents \o newEvents, <<>>)
             usable    == SelectSeq(merged, ContentUsable)
         IN  [i \in 1..Len(usable) |-> usable[i].content]

\* one iteration of the matching loop: TRUE when the content is returned
ContentMatches(content, relays, periodGiven, periodSince, periodUntil) ==
    /\ content.version = NOSTR_YEARS_VERSION
    /\ content.hasRelays /\ arraysEqual(content.relays, relays)
    /\ periodGiven =>
          (content.period.since = periodSince /\ content.period.until = periodUntil)

RECURSIVE FirstMatch(_, _, _, _, _)
FirstMatch(contents, relays, periodGiven, periodSince, periodUntil) ==
    IF contents = <<>> THEN Null
    ELSE IF ContentMatches(Head(contents), relays, periodGiven, periodSince, periodUntil)
         THEN Head(contents)
         ELSE FirstMatch(Tail(contents), relays, periodGiven, periodSince, periodUntil)

fetchOwnNostrYearsEventWithRelays(events, queryFails, relays, periodGiven, periodSince, periodUntil) ==
    FirstMatch(fetchOwnNostrYearsEvents(events, queryFails),
               relays, periodGiven, periodSince, periodUntil)

\* fetchStats: the reconciler is called with (pubkey, relays) only; the
\* period of what it returns is compared afterwards
PeriodCheck(existingStats, periodSince, periodUntil) ==
    IF existingStats # Null
       /\ (existingStats.period.since # periodSince
           \/ existingStats.period.until # periodUntil)
    THEN Null
    ELSE existingStats

CacheCheck(events, queryFails, relays, periodSince, periodUntil) ==
    PeriodCheck(
        fetchOwnNostrYearsEventWithRelays(events, queryFails, relays, FALSE, 0, 0),
        periodSince, periodUntil)

----------------------------------------------------------------------------
(* Published records the relays may hold for the subject, and requests.    *)

MaxRelayLen == 3

RelayUrls == {1, 2}

\* every relay list of at most MaxRelayLen URLs, repetitions included
RelayLists == UNION {[1..n -> RelayUrls] : n \in 0..MaxRelayLen}

\* what the relay selector submits: non-empty, no URL twice
RequestRelayLists == {q \in RelayLists : q # <<>> /\ Cardinality(Range(q)) = Len(q)}

Period1 == [since |-> 100, until |-> 200]

Period2 == [since |-> 100, until |-> 300]

PublishedRecord(id, old, version, relays, period) ==
    [id |-> id, created_at |-> id, dTagOld |-> old, tTag |-> ~old, json |-> TRUE,
     content |-> [version |-> version, hasRelays |-> TRUE, relays |-> relays,
                  hasPeriod |-> TRUE, period |-> period, kind1Count |-> 10 + id]]

FixedRecords ==
    {PublishedRecord(1, FALSE, NOSTR_YEARS_VERSION, <<1, 2>>, Period2),
     PublishedRecord(2, TRUE, NOSTR_YEARS_VERSION, <<2, 1>>, Period1),
     PublishedRecord(4, FALSE, NOSTR_YEARS_VERSION - 1, <<1, 2>>, Period1)}

ProbeRecord(relays) == PublishedRecord(3, FALSE, NOSTR_YEARS_VERSION, relays, Period1)

\* fetchAllNostrYearsEvents (nostrPublisher.ts): the parsed contents of the
\* events the query returned whose version is the current one
fetchAllNostrYearsEvents(events, queryFails) ==
    IF queryFails THEN <<>>
    ELSE LET IsCurrent(e) == e.json /\ e.content.version = NOSTR_YEARS_VERSION
             kept == SelectSeq(events, IsCurrent)
         IN  <<>> \o [i \in 1..Len(kept) |-> kept[i].content]

\* YearSummary.loadPercentiles: the filter giving sameRelayStats
SameRelayStats(allStats, relays) ==
    LET Same(c) == /\ c.hasRelays
                   /\ Len(c.relays) = Len(relays)
                   /\ \A i \in 1..Len(c.relays) : c.relays[i] \in Range(relays)
    IN  SelectSeq(allStats, Same)

\* the population loadPercentiles hands to calculateAllPercentiles
loadPercentiles(events, queryFails, relays) ==
    SameRelayStats(fetchAllNostrYearsEvents(events, queryFails), relays)

NoLookup == [state |-> "idle"]

ReconcilerInit ==
    /\ \E fixed \in SUBSET FixedRecords :
          \/ published = fixed
          \/ \E s \in RelayLists : published = fixed \cup {ProbeRecord(s)}
    /\ \E r \in RequestRelayLists, p \in {Period1, Period2} :
          request = [relays |-> r, period |-> p]
    /\ lookup = NoLookup

\* lines 54-64 of fetchStats: the reconciler call and the period comparison
CheckCache ==
    /\ lookup.state = "idle"
    /\ \E queryFails \in BOOLEAN :
          lookup' = [state      |-> "done",
                     queryFails |-> queryFails,
                     existing   |-> CacheCheck(published, queryFails, request.relays,
                                               request.period.since,
                                               request.period.until)]
    /\ UNCHANGED <<published, request>>

----------------------------------------------------------------------------
(* useNostrStats (src/src/main.tsx): fetchStats and reset.  Each call of   *)
(* fetchStats is an invocation; its awaits are the points where another    *)
(* handler may run.                                                        *)

NumCalls == 2

Slots == 1..NumCalls

IdleInvocation ==
    [pc |-> "idle", force |-> FALSE, shouldSkipCache |-> FALSE,
     existingStats |-> Null,
     consulted |-> FALSE,       \* fetchOwnNostrYearsEventWithRelays was called
     profileFetched |-> FALSE,  \* fetchProfile was called by fetchStats
     retrieval |-> FALSE,       \* fetchNostrYearsStats was called
     wrote |-> Null]            \* what the completing step set

HookInitState ==
    [stats |-> Null, isLoading |-> FALSE, progress |-> Null, error |-> Null,
     isFromCache |-> FALSE]

Progress(phase, percent) == [phase |-> phase, progress |-> percent]

\* what fetchNostrYearsStats resolves to, as far as the hook is concerned
FreshStats ==
    [relays |-> request.relays, period |-> request.period, kind1Count |-> 99,
     profile |-> Null, friendsRanking |-> <<"friend">>]

\* const cachedStats: NostrYearsStats = { ... }
CachedStats(existingStats, profile) ==
    [relays |-> request.relays, period |-> existingStats.period,
     kind1Count |-> existingStats.kind1Count,
     profile |-> profile, friendsRanking |-> <<>>]

\* the cachedStats of setCachedStats, as far as the hook is concerned
LoadedStats(content, profile) ==
    [relays |-> content.relays, period |-> content.period,
     kind1Count |-> content.kind1Count,
     profile |-> profile, friendsRanking |-> <<>>]

\* const shouldSkipCache = force || skipCacheRef.current
ShouldSkipCache_IgnoreForce(force, ref) == ref

ShouldSkipCache(force, ref) == force \/ ref

CacheParked ==
    /\ published = {}
    /\ request = [relays |-> <<1, 2>>, period |-> Period1]
    /\ lookup = NoLookup
    /\ hook = HookInitState
    /\ skipCacheRef = FALSE
    /\ inv = [i \in Slots |-> IdleInvocation]

HookInit ==
    /\ \E fixed \in SUBSET (FixedRecords \cup {ProbeRecord(<<2, 1>>)}) : published = fixed
    /\ \E p \in {Period1, Period2} : request = [relays |-> <<1, 2>>, period |-> p]
    /\ lookup = NoLookup
    /\ hook = HookInitState
    /\ skipCacheRef = FALSE
    /\ inv = [i \in Slots |-> IdleInvocation]

\* fetchStats up to its first await
FetchStatsCall(i, force) ==
    /\ inv[i].pc = "idle"
    /\ \A j \in Slots : j < i => inv[j].pc # "idle"
    /\ LET shouldSkipCache == ShouldSkipCache(force, skipCacheRef)
       IN  /\ hook' = [hook EXCEPT !.isLoading = TRUE, !.error = Null,
                                   !.isFromCache = FALSE,
                                   !.progress = IF shouldSkipCache
                                                THEN Progress("fetching_own", 5)
                                                ELSE Progress("idle", 5)]
           /\ inv' = [inv EXCEPT ![i] =
                        [@ EXCEPT !.pc = IF shouldSkipCache THEN "awaitFetch"
                                         ELSE "awaitReconciler",
                                  !.force = force,
                                  !.shouldSkipCache = shouldSkipCache,
                                  !.consulted = ~shouldSkipCache,
                                  !.retrieval = shouldSkipCache]]
    /\ skipCacheRef' = FALSE
    /\ UNCHANGED <<published, request, lookup>>

\* the reconciler's promise settles; the period is compared; either the
\* profile fetch or the fresh retrieval is started
ReconcilerReturns(i) ==
    /\ inv[i].pc = "awaitReconciler"
    /\ \E queryFails \in BOOLEAN :
          LET existingStats == CacheCheck(published, queryFails, request.relays,
                                          request.period.since, request.period.until)
          IN  IF existingStats # Null
              THEN /\ hook' = [hook EXCEPT !.progress = Progress("fetching_own", 50)]
                   /\ inv' = [inv EXCEPT ![i] =
                                [@ EXCEPT !.pc = "awaitProfile",
                                          !.existingStats = existingStats,
                                          !.profileFetched = TRUE]]
              ELSE /\ hook' = [hook EXCEPT !.progress = Progress("fetching_own", 5)]
                   /\ inv' = [inv EXCEPT ![i] =
                                [@ EXCEPT !.pc = "awaitFetch", !.retrieval = TRUE]]
    /\ UNCHANGED <<published, request, lookup, skipCacheRef>>

\* fetchProfile settles (it never rejects): the cached branch completes
ProfileReturns(i) ==
    /\ inv[i].pc = "awaitProfile"
    /\ \E profile \in {Null, [name |-> "n"]} :
          /\ hook' = [hook EXCEPT !.progress = Progress("done", 100),
                                  !.stats = CachedStats(inv[i].existingStats, profile),
                                  !.isFromCache = TRUE,
                                  !.isLoading = FALSE]
          /\ inv' = [inv EXCEPT ![i] =
                       [@ EXCEPT !.pc = "done",
                                 !.wrote = [stats |-> hook'.stats,
                                            isFromCache |-> hook'.isFromCache]]]
    /\ UNCHANGED <<published, request, lookup, skipCacheRef>>

\* fetchNostrYearsStats resolves
FetchResolves(i) ==
    /\ inv[i].pc = "awaitFetch"
    /\ hook' = [hook EXCEPT !.progress = Progress("done", 100),
                            !.stats = FreshStats, !.isFromCache = FALSE,
                            !.isLoading = FALSE]
    /\ inv' = [inv EXCEPT ![i] =
                 [@ EXCEPT !.pc = "done",
                           !.wrote = [stats |-> hook'.stats,
                                      isFromCache |-> hook'.isFromCache]]]
    /\ UNCHANGED <<published, request, lookup, skipCacheRef>>

\* what fetchNostrYearsStats may reject with: an Error with a message, or a
\* value that is not an Error
Rejections ==
    {[isError |-> TRUE, message |-> "relay failure"],
     [isError |-> FALSE, message |-> ""]}

\* err instanceof Error ? err.message : 'Failed to fetch stats'
ErrorMessage(err) ==
    IF err.isError THEN err.message ELSE "Failed to fetch stats"

FetchRejects_NoFinally(i) ==
    /\ inv[i].pc = "awaitFetch"
    /\ \E err \in Rejections :
          hook' = [hook EXCEPT !.error = [message |-> ErrorMessage(err)]]
    /\ inv' = [inv EXCEPT ![i] = [@ EXCEPT !.pc = "failed"]]
    /\ UNCHANGED <<published, request, lookup, skipCacheRef>>

\* fetchNostrYearsStats rejects: catch and finally
FetchRejects(i) ==
    /\ inv[i].pc = "awaitFetch"
    /\ \E err \in Rejections :
          hook' = [hook EXCEPT !.error = [message |-> ErrorMessage(err)],
                               !.isLoading = FALSE]
    /\ inv' = [inv EXCEPT ![i] = [@ EXCEPT !.pc = "failed"]]
    /\ UNCHANGED <<published, request, lookup, skipCacheRef>>

\* setCachedStats, called for a record of the recent-results listing, which
\* the input form shows while stats is unset and nothing is loading
LoadCachedResult ==
    /\ hook.stats = Null /\ ~hook.isLoading
    /\ \E rec \in published :
          hook' = [hook EXCEPT !.stats = LoadedStats(rec.content, Null),
                               !.isFromCache = TRUE, !.error = Null,
                               !.progress = Null]
    /\ UNCHANGED <<published, request, lookup, skipCacheRef, inv>>

Reset_NoArm ==
    /\ hook.stats # Null
    /\ hook' = [hook EXCEPT !.stats = Null, !.progress = Null, !.error = Null,
                            !.isFromCache = FALSE]
    /\ UNCHANGED <<published, request, lookup, inv, skipCacheRef>>

\* reset(), offered by the summary view, which is shown while stats is set
Reset ==
    /\ hook.stats # Null
    /\ hook' = [hook EXCEPT !.stats = Null, !.progress = Null, !.error = Null,
                            !.isFromCache = FALSE]
    /\ skipCacheRef' = TRUE
    /\ UNCHANGED <<published, request, lookup, inv>>

----------------------------------------------------------------------------
(* Time (nostrFetcher.ts, getMonthKey and getHourJST).                     *)

\* the proleptic Gregorian year and month of a day number (days since
\* 1970-01-01), as Date computes them
CivilYearMonth(days) ==
    LET z   == days + 719468
        era == z \div 146097
        doe == z - era * 146097
        yoe == (doe - doe \div 1460 + doe \div 36524 - doe \div 146096) \div 365
        doy == doe - (365 * yoe + yoe \div 4 - yoe \div 100)
        mp  == (5 * doy + 2) \div 153
        m   == IF mp < 10 THEN mp + 3 ELSE mp - 9
        y   == yoe + era * 400 + (IF m <= 2 THEN 1 ELSE 0)
    IN  <<y, m>>

\* date.getFullYear() / date.getMonth() + 1 are local-time fields: tz is
\* the running environment's offset from UTC in minutes.  The key
\* `${year}-${month}` is the pair <<year, month>>.
getMonthKey(timestamp, tz) == CivilYearMonth((timestamp + tz * 60) \div 86400)

\* (date.getUTCHours() + 9) % 24
getHourJST(timestamp) == (((timestamp \div 3600) % 24) + 9) % 24

----------------------------------------------------------------------------
(* Zap amounts (nostrFetcher.ts, extractSatsFromBolt11).  The invoice      *)
(* decoder is light-bolt11-decoder; what it does with the invoice strings  *)
(* used here is tabulated: it throws, or returns sections with or without  *)
(* an amount in millisatoshis.                                             *)

decodeBolt11(bolt11) ==
    CASE bolt11 = "lnbc21000m" -> [throws |-> FALSE, hasAmount |-> TRUE, value |-> 21000]
      [] bolt11 = "lnbc2500m"  -> [throws |-> FALSE, hasAmount |-> TRUE, value |-> 2500]
      [] bolt11 = "lnbc999m"   -> [throws |-> FALSE, hasAmount |-> TRUE, value |-> 999]
      [] bolt11 = "lnbc"       -> [throws |-> FALSE, hasAmount |-> FALSE, value |-> 0]
      [] OTHER                 -> [throws |-> TRUE, hasAmount |-> FALSE, value |-> 0]

extractSatsFromBolt11_RoundUp(bolt11) ==
    LET decoded == decodeBolt11(bolt11)
    IN  IF ~decoded.throws /\ decoded.hasAmount
        THEN (decoded.value + 999) \div 1000
        ELSE 0

extractSatsFromBolt11(bolt11) ==
    LET decoded == decodeBolt11(bolt11)
    IN  IF ~decoded.throws /\ decoded.hasAmount
        THEN decoded.value \div 1000
        ELSE 0

\* Math.round(a / b) for a >= 0, b > 0
RoundDiv(a, b) == (2 * a + b) \div (2 * b)

\* calculatePercentile of textAnalysis.ts
calculatePercentile_AtOrBelow(value, allValues) ==
    IF Len(allValues) = 0 THEN 0
    ELSE LET sorted     == Sort(allValues, "numbers")
             belowCount == Len(SelectSeq(sorted, LAMBDA v : v <= value))
         IN  RoundDiv(100 * Len(sorted) - belowCount * 100, Len(sorted))

calculatePercentile(value, allValues) ==
    IF Len(allValues) = 0 THEN 0
    ELSE LET sorted     == Sort(allValues, "numbers")
             belowCount == Len(SelectSeq(sorted, LAMBDA v : v < value))
         IN  RoundDiv(100 * Len(sorted) - belowCount * 100, Len(sorted))

----------------------------------------------------------------------------
(* The accumulation of fetchNostrYearsStats (nostrFetcher.ts 300-533).     *)

EmptyMonth(monthKey) ==
    [month |-> monthKey, kind1 |-> 0, kind6 |-> 0, kind7 |-> 0, kind42 |-> 0,
     kind30023 |-> 0, receivedReactions |-> 0, zapsSent |-> 0, zapsReceived |-> 0]

\* the state the loops update: the stats counters, the maps and the sets
EmptyAcc ==
    [kind1Count |-> 0, kind1Chars |-> 0, kind30023Count |-> 0,
     kind30023Chars |-> 0, kind6Count |-> 0, kind7Count |-> 0,
     receivedReactionsCount |-> 0, kind42Count |-> 0, imageCount |-> 0,
     zapsReceived |-> [count |-> 0, totalSats |-> 0],
     zapsSent |-> [count |-> 0, totalSats |-> 0],
     reactionEmojiCounts |-> <<>>,
     outgoingReactions |-> <<>>, outgoingReplies |-> <<>>,
     incomingReactions |-> <<>>, incomingReplies |-> <<>>,
     ownKind1Ids |-> {}, kind1ReactionCounts |-> <<>>,
     monthlyMap |-> <<>>, hourlyMap |-> [h \in 0..23 |-> 0]]

addToMonthly(monthlyMap, timestamp, kind, tz) ==
    LET monthKey == getMonthKey(timestamp, tz)
        present  == \E i \in 1..Len(monthlyMap) : monthlyMap[i].month = monthKey
        map      == IF present THEN monthlyMap
                    ELSE Append(monthlyMap, EmptyMonth(monthKey))
    IN  [i \in 1..Len(map) |->
            IF map[i].month = monthKey
            THEN [map[i] EXCEPT ![kind] = @ + 1]
            ELSE map[i]]

addToHourly(hourlyMap, timestamp) ==
    [hourlyMap EXCEPT ![getHourJST(timestamp)] = @ + 1]

\* for (const targetPubkey of targets) if (targetPubkey !== pubkey) add
RECURSIVE AddTargets(_, _, _)
AddTargets(map, targets, pubkey) ==
    IF targets = <<>> THEN map
    ELSE AddTargets(IF Head(targets) # pubkey
                    THEN addToCountMap(map, Head(targets))
                    ELSE map,
                    Tail(targets), pubkey)

\* the count added to a zap total: 0 when the receipt is not counted
ZapSats(event) ==
    LET bolt11Tag == TagsFind(event.tags, "bolt11")
    IN  IF bolt11Tag # <<>> /\ Len(bolt11Tag) >= 2 /\ bolt11Tag[2] # ""
        THEN extractSatsFromBolt11(bolt11Tag[2])
        ELSE 0

\* one iteration of "for (const event of ownEvents)"
ProcessOwn(acc, event, pubkey, tz) ==
    LET counted(kind) ==
            [acc EXCEPT !.monthlyMap = addToMonthly(@, event.created_at, kind, tz),
                        !.hourlyMap  = addToHourly(@, event.created_at)]
    IN  CASE event.kind = 1 ->
               [counted("kind1") EXCEPT
                   !.kind1Count = @ + 1,
                   !.kind1Chars = @ + countCharsWithoutUrls(event.content),
                   !.imageCount = @ + countImages(event.content),
                   !.ownKind1Ids = @ \cup {event.id},
                   !.outgoingReplies =
                       IF isReply(event.tags)
                       THEN AddTargets(@, extractPubkeysFromTags(event.tags), pubkey)
                       ELSE @]
          [] event.kind = 6 ->
               [counted("kind6") EXCEPT !.kind6Count = @ + 1]
          [] event.kind = 7 ->
               [counted("kind7") EXCEPT
                   !.kind7Count = @ + 1,
                   !.outgoingReactions =
                       AddTargets(@, extractPubkeysFromTags(event.tags), pubkey),
                   !.reactionEmojiCounts =
                       addToCountMap(@, IF event.content = <<>> THEN <<"+">>
                                        ELSE event.content)]
          [] event.kind = 42 ->
               [counted("kind42") EXCEPT !.kind42Count = @ + 1]
          [] event.kind = 30023 ->
               [counted("kind30023") EXCEPT
                   !.kind30023Count = @ + 1,
                   !.kind30023Chars = @ + countCharsWithoutUrls(event.content)]
          [] OTHER -> acc

\* the switch of one iteration of "for (const event of incomingEvents)"
ProcessIncomingOfOther(acc, event, pubkey, tz) ==
    CASE event.kind = 7 ->
           LET eTag == TagsFind(event.tags, "e")
           IN  IF eTag = <<>> THEN acc
               ELSE [acc EXCEPT
                       !.kind1ReactionCounts =
                           IF Len(eTag) >= 2 /\ eTag[2] \in acc.ownKind1Ids
                           THEN addToCountMap(@, eTag[2])
                           ELSE @,
                       !.incomingReactions = addToCountMap(@, event.pubkey),
                       !.receivedReactionsCount = @ + 1,
                       !.monthlyMap = addToMonthly(@, event.created_at,
                                                   "receivedReactions", tz)]
      [] event.kind = 1 ->
           IF isReply(event.tags)
           THEN [acc EXCEPT !.incomingReplies = addToCountMap(@, event.pubkey)]
           ELSE acc
      [] event.kind = 9735 ->
           IF ZapSats(event) > 0
           THEN [acc EXCEPT
                   !.zapsReceived = [count |-> @.count + 1,
                                     totalSats |-> @.totalSats + ZapSats(event)],
                   !.monthlyMap = addToMonthly(@, event.created_at,
                                               "zapsReceived", tz)]
           ELSE acc
      [] OTHER -> acc

ProcessIncoming_NoSelfSkip(acc, event, pubkey, tz) ==
    ProcessIncomingOfOther(acc, event, pubkey, tz)

\* if (event.pubkey === pubkey) continue;
ProcessIncoming(acc, event, pubkey, tz) ==
    IF event.pubkey = pubkey THEN acc
    ELSE ProcessIncomingOfOther(acc, event, pubkey, tz)

\* one iteration of "for (const event of sentZaps)"
ProcessSentZap(acc, event, tz) ==
    IF ZapSats(event) > 0
    THEN [acc EXCEPT
            !.zapsSent = [count |-> @.count + 1,
                          totalSats |-> @.totalSats + ZapSats(event)],
            !.monthlyMap = addToMonthly(@, event.created_at, "zapsSent", tz)]
    ELSE acc

RECURSIVE FoldOwn(_, _, _, _)
FoldOwn(acc, events, pubkey, tz) ==
    IF events = <<>> THEN acc
    ELSE FoldOwn(ProcessOwn(acc, Head(events), pubkey, tz), Tail(events), pubkey, tz)

RECURSIVE FoldIncoming(_, _, _, _)
FoldIncoming(acc, events, pubkey, tz) ==
    IF events = <<>> THEN acc
    ELSE FoldIncoming(ProcessIncoming(acc, Head(events), pubkey, tz),
                      Tail(events), pubkey, tz)

RECURSIVE FoldSentZaps(_, _, _)
FoldSentZaps(acc, events, tz) ==
    IF events = <<>> THEN acc
    ELSE FoldSentZaps(ProcessSentZap(acc, Head(events), tz), Tail(events), tz)

\* { count, totalSats, averageSats } with the average rounded
ZapStats(z) ==
    [count |-> z.count, totalSats |-> z.totalSats,
     averageSats |-> IF z.count > 0 THEN RoundDiv(z.totalSats, z.count) ELSE 0]

\* .slice(0, 3) of the posts, .slice(0, 10) of the emojis
TopPostsN == 3

TopEmojisN == 10

topPostsOf_Unsorted(kind1ReactionCounts) ==
    Slice([i \in 1..Len(kind1ReactionCounts) |->
             [id |-> kind1ReactionCounts[i].key,
              reactionCount |-> kind1ReactionCounts[i].count]],
          TopPostsN)

topPostsOf(kind1ReactionCounts) ==
    Slice(Sort([i \in 1..Len(kind1ReactionCounts) |->
                  [id |-> kind1ReactionCounts[i].key,
                   reactionCount |-> kind1ReactionCounts[i].count]], "posts"),
          TopPostsN)

topReactionEmojisOf(reactionEmojiCounts) ==
    Slice(Sort([i \in 1..Len(reactionEmojiCounts) |->
                  [emoji |-> reactionEmojiCounts[i].key,
                   count |-> reactionEmojiCounts[i].count]], "emojis"),
          TopEmojisN)

monthlyActivityOf_Unsorted(monthlyMap) == monthlyMap

monthlyActivityOf(monthlyMap) == Sort(monthlyMap, "months")

hourlyActivityOf(hourlyMap) ==
    Sort([i \in 1..24 |-> [hour |-> i - 1, count |-> hourlyMap[i - 1]]], "hours")

InteractionOf(acc) ==
    [outgoingReactions |-> acc.outgoingReactions,
     outgoingReplies   |-> acc.outgoingReplies,
     incomingReactions |-> acc.incomingReactions,
     incomingReplies   |-> acc.incomingReplies]

\* the loops over ownEvents, incomingEvents and sentZaps, in this order
AccumulateLoops(own, incoming, zaps, pubkey, tz) ==
    FoldSentZaps(FoldIncoming(FoldOwn(EmptyAcc, own, pubkey, tz),
                              incoming, pubkey, tz),
                 zaps, tz)

\* the NostrYearsStats that is returned
StatsOf(acc, pubkey, profile, relays, periodSince, periodUntil) ==
    [pubkey |-> pubkey, profile |-> profile, relays |-> relays,
     period |-> [since |-> periodSince, until |-> periodUntil],
     kind1Count |-> acc.kind1Count, kind1Chars |-> acc.kind1Chars,
     kind30023Count |-> acc.kind30023Count,
     kind30023Chars |-> acc.kind30023Chars,
     kind6Count |-> acc.kind6Count, kind7Count |-> acc.kind7Count,
     receivedReactionsCount |-> acc.receivedReactionsCount,
     kind42Count |-> acc.kind42Count, imageCount |-> acc.imageCount,
     topPosts |-> topPostsOf(acc.kind1ReactionCounts),
     topReactionEmojis |-> topReactionEmojisOf(acc.reactionEmojiCounts),
     friendsRanking |-> friendsRankingOf(InteractionOf(acc)),
     monthlyActivity |-> monthlyActivityOf(acc.monthlyMap),
     hourlyActivity |-> hourlyActivityOf(acc.hourlyMap),
     zapsReceived |-> ZapStats(acc.zapsReceived),
     zapsSent |-> ZapStats(acc.zapsSent)]

----------------------------------------------------------------------------
(* The events the relays hold.  Subject is the pubkey the statistics are   *)
(* computed for.                                                           *)

Subject == "me"

\* DEFAULT_PERIOD_SINCE: 2024-12-31T15:00:00Z
PeriodSince == 1735657200

PeriodUntil == PeriodSince + 40 * 86400

periodDuration == PeriodUntil - PeriodSince

FetchRelays == <<1, 2>>

Hours(n) == n * 3600

Days(n) == n * 86400

Event(id, pubkey, kind, offset, content, tags) ==
    [id |-> id, pubkey |-> pubkey, kind |-> kind,
     created_at |-> PeriodSince + offset, content |-> content, tags |-> tags]

\* events signed by the subject
OwnUniverse ==
    {Event("p1", Subject, 1, Hours(1), <<"a", "a", " ", "H", "a", "P">>, <<>>),
     Event("p2", Subject, 1, Days(20) + Hours(5),
           <<"H", "a", "P", "Q", "a", " ", "a">>,
           <<(<<"e", "x1">>), (<<"p", "alice">>)>>),
     Event("r1", Subject, 7, Days(35), <<>>,
           <<(<<"e", "p1">>), (<<"p", "alice">>), (<<"p", Subject>>)>>),
     Event("r2", Subject, 7, Days(39), <<"+">>,
           <<(<<"e", "x2">>), (<<"p", "bob">>)>>),
     Event("a1", Subject, 30023, Days(10), <<"a", " ", "H", "a">>, <<>>),
     Event("s1", Subject, 6, Days(31) + Hours(23), <<>>,
           <<(<<"e", "x1">>), (<<"p", "alice">>)>>),
     Event("c1", Subject, 42, Days(5), <<"a">>, <<(<<"e", "room">>)>>)}

\* events signed by others
OthersUniverse ==
    {Event("i1", "alice", 7, Days(1), <<"+">>,
           <<(<<"e", "p1">>), (<<"p", Subject>>)>>),
     Event("i2", "bob", 7, Days(32), <<"+">>,
           <<(<<"e", "x9">>), (<<"p", Subject>>)>>),
     Event("i3", "bob", 1, Days(15), <<"a">>,
           <<(<<"e", "p1">>), (<<"p", Subject>>)>>),
     Event("z1", "zapper", 9735, Days(33), <<>>,
           <<(<<"p", Subject>>), (<<"P", "alice">>), (<<"bolt11", "lnbc2500m">>)>>),
     Event("z2", "zapper", 9735, Days(3), <<>>,
           <<(<<"p", "bob">>), (<<"P", Subject>>), (<<"bolt11", "lnbc21000m">>)>>),
     Event("z3", "zapper", 9735, Days(4), <<>>,
           <<(<<"p", "bob">>), (<<"P", Subject>>), (<<"bolt11", "garbage">>)>>)}

Universe == OwnUniverse \cup OthersUniverse

\* relay 1 holds every event, relay 2 some of them
RelayHolds(r) ==
    IF r = 1 THEN Universe
    ELSE {e \in Universe : e.id \in {"p1", "i1"}}

HasTagValue(e, name, value) ==
    \E i \in 1..Len(e.tags) :
        Len(e.tags[i]) >= 2 /\ e.tags[i][1] = name /\ e.tags[i][2] = value

Phases == {"A", "B", "C"}

\* the filter and time range of each phase's query
MatchesFilter(p, e) ==
    /\ PeriodSince <= e.created_at /\ e.created_at <= PeriodUntil
    /\ CASE p = "A" -> e.kind \in {1, 6, 7, 42, 30023} /\ e.pubkey = Subject
         [] p = "B" -> e.kind \in {1, 7, 9735} /\ HasTagValue(e, "p", Subject)
         [] p = "C" -> e.kind = 9735 /\ HasTagValue(e, "P", Subject)

\* progressStart and progressEnd of the two fetchWithProgress calls
ProgressStart(p) == IF p = "A" THEN 5 ELSE 40

ProgressEnd(p) == IF p = "A" THEN 40 ELSE 70

----------------------------------------------------------------------------
(* fetchNostrYearsStats as a state machine.  Progress values are kept      *)
(* multiplied by periodDuration, which makes every one of them an integer. *)

MaxDeliveries == 2

Scaled(percent) == percent * periodDuration

Deliveries ==
    Cardinality(delivered["A"]) + Cardinality(delivered["B"])
        + Cardinality(delivered["C"])

\* NostrFetcher.allEventsIterator / fetchAllEvents of nostr-fetch: an event
\* whose id the query has already yielded is not yielded again
IteratorYields(yielded, event) ==
    \A i \in 1..Len(yielded) : yielded[i].id # event.id

\* events.push(event)
PushEvent(events, event) == Append(events, event)

\* the progress of the loop body of fetchWithProgress, scaled
EventProgress(p, event) ==
    Scaled(ProgressStart(p))
        + (PeriodUntil - event.created_at) * (ProgressEnd(p) - ProgressStart(p))

ThrottlePasses_OnePoint(progress, last) == progress - last >= Scaled(1)

\* if (progress - lastProgressUpdate >= 2)
ThrottlePasses(progress, last) == progress - last >= Scaled(2)

\* the awaited promise of a phase is fulfilled
PhaseReturned_NoAwait(p) == phaseSt[p] \in {"open", "exhausted"}

PhaseReturned(p) == phaseSt[p] = "exhausted"

\* const profile = await profilePromise
ProfileReturned == profileState.st = "resolved"

NoProfile == [st |-> "notStarted", value |-> Null]

FetchParked ==
    /\ pc = "parked"
    /\ profileState = NoProfile
    /\ phaseSt = [p \in Phases |-> "idle"]
    /\ collected = <<>>
    /\ ownEvents = <<>>
    /\ incomingEvents = <<>>
    /\ sentZaps = <<>>
    /\ lastProgressUpdate = 0
    /\ emitted = <<>>
    /\ delivered = [p \in Phases |-> {}]
    /\ stats = Null
    /\ interaction = Null
    /\ localTz = 540

FetchInit ==
    /\ pc = "start"
    /\ profileState = NoProfile
    /\ phaseSt = [p \in Phases |-> "idle"]
    /\ collected = <<>>
    /\ ownEvents = <<>>
    /\ incomingEvents = <<>>
    /\ sentZaps = <<>>
    /\ lastProgressUpdate = 0
    /\ emitted = <<>>
    /\ delivered = [p \in Phases |-> {}]
    /\ stats = Null
    /\ interaction = Null
    /\ localTz \in {540, -480}

\* the call up to the first await: the profile fetch is started, 5 is
\* emitted and the query of phase A is issued
FetchStart ==
    /\ pc = "start"
    /\ profileState' = [st |-> "pending", value |-> Null]
    /\ emitted' = Append(emitted, Progress("fetching_own", Scaled(5)))
    /\ phaseSt' = [phaseSt EXCEPT !["A"] = "open"]
    /\ lastProgressUpdate' = Scaled(ProgressStart("A"))
    /\ pc' = "A"
    /\ UNCHANGED <<collected, ownEvents, incomingEvents, sentZaps, delivered,
                   stats, interaction, localTz>>

\* relay r sends event e on the open query; if the iterator yields it the
\* body of the for-await loop runs (phases A and B)
Deliver(r, e) ==
    /\ pc \in Phases /\ phaseSt[pc] = "open"
    /\ e \in RelayHolds(r) /\ MatchesFilter(pc, e)
    /\ <<r, e.id>> \notin delivered[pc]
    /\ Deliveries < MaxDeliveries
    /\ delivered' = [delivered EXCEPT ![pc] = @ \cup {<<r, e.id>>}]
    /\ IF IteratorYields(collected, e)
       THEN /\ collected' = PushEvent(collected, e)
            /\ IF pc \in {"A", "B"}
                  /\ ThrottlePasses(EventProgress(pc, e), lastProgressUpdate)
               THEN /\ emitted' =
                         Append(emitted,
                                Progress("fetching_own",
                                         Min(EventProgress(pc, e),
                                             Scaled(ProgressEnd(pc)))))
                    /\ lastProgressUpdate' = EventProgress(pc, e)
               ELSE UNCHANGED <<emitted, lastProgressUpdate>>
       ELSE UNCHANGED <<collected, emitted, lastProgressUpdate>>
    /\ UNCHANGED <<pc, profileState, phaseSt, ownEvents, incomingEvents,
                   sentZaps, stats, interaction, localTz>>

\* every relay has finished: the iterator of the open query ends
ExhaustPhase ==
    /\ pc \in Phases /\ phaseSt[pc] = "open"
    /\ phaseSt' = [phaseSt EXCEPT ![pc] = "exhausted"]
    /\ UNCHANGED <<pc, profileState, collected, ownEvents, incomingEvents,
                   sentZaps, lastProgressUpdate, emitted, delivered, stats,
                   interaction, localTz>>

\* the open query throws
FailPhase ==
    /\ pc \in Phases /\ phaseSt[pc] = "open"
    /\ phaseSt' = [phaseSt EXCEPT ![pc] = "failed"]
    /\ UNCHANGED <<pc, profileState, collected, ownEvents, incomingEvents,
                   sentZaps, lastProgressUpdate, emitted, delivered, stats,
                   interaction, localTz>>

\* fetchProfile settles; it catches every error, so it never rejects.  Its
\* value, the profile or null, is read where the promise is awaited.
ProfileResolves ==
    /\ profileState.st = "pending"
    /\ profileState' = [profileState EXCEPT !.st = "resolved"]
    /\ UNCHANGED <<pc, phaseSt, collected, ownEvents, incomingEvents, sentZaps,
                   lastProgressUpdate, emitted, delivered, stats, interaction,
                   localTz>>

\* "const ownEvents = await fetchWithProgress(...)" returns; 40 is emitted
\* and the query of phase B is issued
AfterOwnEvents ==
    /\ pc = "A" /\ PhaseReturned("A")
    /\ ownEvents' = collected
    /\ collected' = <<>>
    /\ emitted' = Append(emitted, Progress("fetching_reactions", Scaled(40)))
    /\ phaseSt' = [phaseSt EXCEPT !["B"] = "open"]
    /\ lastProgressUpdate' = Scaled(ProgressStart("B"))
    /\ pc' = "B"
    /\ UNCHANGED <<profileState, incomingEvents, sentZaps, delivered, stats,
                   interaction, localTz>>

\* "const incomingEvents = await fetchWithProgress(...)" returns; 70 is
\* emitted and fetchAllEvents of phase C is called
AfterIncomingEvents ==
    /\ pc = "B" /\ PhaseReturned("B")
    /\ incomingEvents' = collected
    /\ collected' = <<>>
    /\ emitted' = Append(emitted, Progress("fetching_reactions", Scaled(70)))
    /\ phaseSt' = [phaseSt EXCEPT !["C"] = "open"]
    /\ pc' = "C"
    /\ UNCHANGED <<profileState, ownEvents, sentZaps, lastProgressUpdate,
                   delivered, stats, interaction, localTz>>

\* the iterator of phase A or B throws inside fetchWithProgress: nothing
\* catches it and the promise of fetchNostrYearsStats rejects
RejectFromPhase ==
    /\ pc \in {"A", "B"} /\ phaseSt[pc] = "failed"
    /\ pc' = "rejected"
    /\ UNCHANGED <<profileState, phaseSt, collected, ownEvents, incomingEvents,
                   sentZaps, lastProgressUpdate, emitted, delivered, stats,
                   interaction, localTz>>

\* try { sentZaps = await f.fetchAllEvents(...) } catch { console.error }
AfterSentZaps ==
    /\ pc = "C" /\ (PhaseReturned("C") \/ phaseSt["C"] = "failed")
    /\ sentZaps' = IF phaseSt["C"] = "failed" THEN <<>> ELSE collected
    /\ collected' = <<>>
    /\ pc' = "awaitProfile"
    /\ UNCHANGED <<profileState, phaseSt, ownEvents, incomingEvents,
                   lastProgressUpdate, emitted, delivered, stats, interaction,
                   localTz>>

\* from "const profile = await profilePromise" to "return stats"
ProcessData ==
    /\ pc = "awaitProfile" /\ ProfileReturned
    /\ \E profile \in {Null, [name |-> "n"]} :
          LET acc == AccumulateLoops(ownEvents, incomingEvents, sentZaps,
                                     Subject, localTz)
          IN  /\ profileState' = [profileState EXCEPT !.value = profile]
              /\ stats' = StatsOf(acc, Subject, profile, FetchRelays,
                                  PeriodSince, PeriodUntil)
              /\ interaction' = InteractionOf(acc)
    /\ emitted' = emitted \o <<Progress("calculating", Scaled(65)),
                                Progress("calculating", Scaled(85)),
                                Progress("calculating", Scaled(90)),
                                Progress("done", Scaled(100))>>
    /\ pc' = "done"
    /\ UNCHANGED <<phaseSt, collected, ownEvents, incomingEvents,
                   sentZaps, lastProgressUpdate, delivered, localTz>>

----------------------------------------------------------------------------
(* SpecCalls: the pure functions of scoring.ts and textAnalysis.ts applied  *)
(* to arguments drawn from bounded sets.                                   *)

MaxTotal == 10

MaxPopulation == 5

PopulationValues == 1..5

Populations == UNION {[1..n -> PopulationValues] : n \in 0..MaxPopulation}

BalanceCalls ==
    {[fn |-> "calculateBalanceScore", args |-> <<o, i>>] :
        o \in 0..MaxTotal, i \in 0..MaxTotal}

PercentileCalls ==
    {[fn |-> "calculatePercentile", args |-> <<v, p>>] :
        v \in {0, 3, 6}, p \in Populations}

\* a published record as a relay returns it: any relay list, the current or
\* an older version, content that parses or not, with or without relays
PopulationRecords ==
    {[PublishedRecord(3, TRUE, version, relays, Period1) EXCEPT
            !.json = json, !.content.hasRelays = hasRelays] :
        version \in {NOSTR_YEARS_VERSION, NOSTR_YEARS_VERSION - 1},
        relays \in RelayLists, json \in BOOLEAN, hasRelays \in BOOLEAN}

LoadPercentilesCalls ==
    {[fn |-> "loadPercentiles",
      args |-> <<(<<PublishedRecord(1, TRUE, NOSTR_YEARS_VERSION, <<2, 1>>, Period2), e>>),
                 queryFails, relays>>] :
        e \in PopulationRecords, queryFails \in BOOLEAN, relays \in RequestRelayLists}

\* InputForm.tsx.  A key input is one of: "" (nothing but white space),
\* "hex" (64 lower-case hex digits), "HEX" (the same in upper case),
\* "npub1ok" (the npub encoding of "hex"), "npub1bad" (starts with npub,
\* nip19.decode throws), "short" (not 64 hex digits).
KeyInputs == {"", "hex", "HEX", "npub1ok", "npub1bad", "short"}

parsePubkey(pubkeyOrNpub) ==
    LET startsWithNpub == pubkeyOrNpub \in {"npub1ok", "npub1bad"}
        decodeThrows   == pubkeyOrNpub = "npub1bad"
        pubkey         == IF startsWithNpub THEN "hex" ELSE pubkeyOrNpub
    IN  IF startsWithNpub /\ decodeThrows THEN [ok |-> FALSE, pubkey |-> ""]
        ELSE IF pubkey \notin {"hex", "HEX"} THEN [ok |-> FALSE, pubkey |-> ""]
        ELSE [ok |-> TRUE, pubkey |-> "hex"]

\* new Date(dateStr + 'T00:00:00+09:00'), setHours(23, 59, 59, 999) in the
\* local time of the environment, Math.floor(getTime() / 1000); a date is
\* its day number, tz the local offset from UTC in minutes
getUnixTimestamp(day, isEndOfDay, tz) ==
    LET instant == day * 86400 - 9 * 3600
        local   == instant + tz * 60
    IN  IF isEndOfDay
        THEN (local \div 86400) * 86400 + 23 * 3600 + 59 * 60 + 59 - tz * 60
        ELSE instant

\* App.handleSubmit: fetchStats(pubkey, relays, periodSince, periodUntil)
handleSubmit(pubkey, relays, periodSince, periodUntil) ==
    <<[pubkey |-> pubkey, relays |-> relays,
       periodSince |-> periodSince, periodUntil |-> periodUntil]>>

NoSubmission(message) == [error |-> <<message>>, onSubmit |-> <<>>, fetchStats |-> <<>>]

validateAndSubmit_NoPeriodCheck(pubkeyOrNpub, relays, sinceDateInput, untilDateInput, tz) ==
    LET parsed      == parsePubkey(pubkeyOrNpub)
        periodSince == getUnixTimestamp(sinceDateInput, FALSE, tz)
        periodUntil == getUnixTimestamp(untilDateInput, TRUE, tz)
        submission  == handleSubmit(parsed.pubkey, relays, periodSince, periodUntil)
    IN  IF Len(relays) = 0 THEN NoSubmission("Please select at least one relay")
        ELSE IF ~parsed.ok THEN NoSubmission("Invalid public key")
        ELSE [error |-> <<>>, onSubmit |-> submission, fetchStats |-> submission]

\* the error that is set, the calls of onSubmit and the calls of fetchStats
\* they lead to
validateAndSubmit(pubkeyOrNpub, relays, sinceDateInput, untilDateInput, tz) ==
    LET parsed      == parsePubkey(pubkeyOrNpub)
        periodSince == getUnixTimestamp(sinceDateInput, FALSE, tz)
        periodUntil == getUnixTimestamp(untilDateInput, TRUE, tz)
        submission  == handleSubmit(parsed.pubkey, relays, periodSince, periodUntil)
    IN  IF Len(relays) = 0 THEN NoSubmission("Please select at least one relay")
        ELSE IF ~parsed.ok THEN NoSubmission("Invalid public key")
        ELSE IF periodSince >= periodUntil
             THEN NoSubmission("Start date must be before end date")
        ELSE [error |-> <<>>, onSubmit |-> submission, fetchStats |-> submission]

\* if (!npubInput.trim()) { setError('Please enter npub'); return; }
handleNpubSubmit(npubInput, relays, sinceDateInput, untilDateInput, tz) ==
    IF npubInput = "" THEN NoSubmission("Please enter npub")
    ELSE validateAndSubmit(npubInput, relays, sinceDateInput, untilDateInput, tz)

DateInputs == 20089..20091

SubmitCalls ==
    {[fn |-> "handleNpubSubmit", args |-> <<key, relays, since, until, tz>>] :
        key \in KeyInputs, relays \in {<<>>, <<1>>, <<1, 2>>},
        since \in DateInputs, until \in DateInputs, tz \in {540, -480, 840}}

\* the loop of fetchRecentNostrYearsEvents over the sorted events
RECURSIVE RecentLoop(_, _, _)
RecentLoop(events, results, limit) ==
    IF events = <<>> THEN results
    ELSE LET event == Head(events)
             seen  == \E i \in 1..Len(results) : results[i].pubkey = event.pubkey
         IN  IF seen THEN RecentLoop(Tail(events), results, limit)
             ELSE IF event.json /\ event.content.version # 0
             THEN LET pushed == Append(results, [pubkey    |-> event.pubkey,
                                                 createdAt |-> event.created_at,
                                                 content   |-> event.content])
                  IN  IF Len(pushed) >= limit THEN pushed
                      ELSE RecentLoop(Tail(events), pushed, limit)
             ELSE RecentLoop(Tail(events), results, limit)

\* fetchRecentNostrYearsEvents (nostrPublisher.ts): events are the events
\* the relays hold; fetchAllEvents with sort: true returns them newest first
fetchRecentNostrYearsEvents(events, queryFails, limit) ==
    IF queryFails THEN <<>>
    ELSE LET anyOrder == CHOOSE q \in Perms(events) : TRUE
             sorted   == Sort(anyOrder, "created")
         IN  Sort(RecentLoop(sorted, <<>>, limit), "recent")

MaxRecent == 3

Authors == {"alice", "bob"}

\* a published record of an author: malformed JSON, or a content with a
\* version (0 for a content without version)
RecentRecord(t, author, json, version) ==
    [id |-> t, created_at |-> t, pubkey |-> author, json |-> json,
     content |-> [version |-> version]]

RecentRecordsAt(t) ==
    {RecentRecord(t, a, FALSE, 0) : a \in Authors}
    \cup {RecentRecord(t, a, TRUE, v) :
             a \in Authors, v \in {0, NOSTR_YEARS_VERSION - 1, NOSTR_YEARS_VERSION}}

\* at most one record per creation time 1..n
RECURSIVE RecentSets(_)
RecentSets(n) ==
    IF n = 0 THEN {{}}
    ELSE LET smaller == RecentSets(n - 1)
         IN  smaller \cup {S \cup {e} : S \in smaller, e \in RecentRecordsAt(n)}

RecentCalls ==
    {[fn |-> "fetchRecentNostrYearsEvents", args |-> <<events, queryFails, limit>>] :
        events \in RecentSets(MaxRecent), queryFails \in BOOLEAN, limit \in 1..2}

\* createEventContent of nostrPublisher.ts
createEventContent(st) ==
    [version |-> NOSTR_YEARS_VERSION,
     relays |-> st.relays,
     period |-> st.period,
     kind1Count |-> st.kind1Count,
     kind1Chars |-> st.kind1Chars,
     kind30023Count |-> st.kind30023Count,
     kind30023Chars |-> st.kind30023Chars,
     kind6Count |-> st.kind6Count,
     kind7Count |-> st.kind7Count,
     receivedReactionsCount |-> st.receivedReactionsCount,
     kind42Count |-> st.kind42Count,
     imageCount |-> st.imageCount,
     topPosts |-> st.topPosts,
     topReactionEmojis |-> st.topReactionEmojis,
     monthlyActivity |-> st.monthlyActivity,
     hourlyActivity |-> st.hourlyActivity,
     zapsReceived |-> st.zapsReceived,
     zapsSent |-> st.zapsSent]

\* what one relay does with a publication: Relay.connect rejects, or the
\* relay rejects the stats event, or it accepts it and rejects the note, or
\* it accepts both
RelayOutcomes == {"connectFails", "statsRejected", "noteRejected", "accepted"}

\* the callback of relays.map in publishNostrYearsStats: the events handed
\* to relay.publish and the value the callback resolves to
PublishToRelay(relayUrl, outcome) ==
    [relay     |-> relayUrl,
     published |-> CASE outcome = "connectFails" -> <<>>
                     [] outcome = "statsRejected" -> <<"stats">>
                     [] OTHER -> <<"stats", "note">>,
     value     |-> outcome = "accepted"]

\* the try block of publishNostrYearsStats; signing is the number of
\* signEvent calls that succeed before one throws (Signs if none throws)
Signs == 2

PublishBody(st, signing, relays, outcomes) ==
    IF signing < Signs
    THEN [threw |-> TRUE, value |-> FALSE, signCalls |-> signing + 1,
          content |-> createEventContent(st), contacted |-> <<>>]
    ELSE LET results == <<>> \o [i \in 1..Len(relays) |->
                                   PublishToRelay(relays[i], outcomes[i])]
         IN  [threw |-> FALSE,
              value |-> \E i \in 1..Len(results) : results[i].value,
              signCalls |-> Signs,
              content |-> createEventContent(st),
              contacted |-> results]

NotPublished == [threw |-> FALSE, value |-> FALSE, signCalls |-> 0, contacted |-> <<>>]

publishNostrYearsStats_NoCatch(st, hasNip07, signing, relays, outcomes) ==
    IF ~hasNip07 THEN NotPublished
    ELSE LET body == PublishBody(st, signing, relays, outcomes)
         IN  [threw |-> body.threw, value |-> body.value,
              signCalls |-> body.signCalls, contacted |-> body.contacted]

\* publishNostrYearsStats: whether it threw, the value it resolved to, the
\* signEvent calls made and what was handed to each relay
publishNostrYearsStats(st, hasNip07, signing, relays, outcomes) ==
    IF ~hasNip07 THEN NotPublished
    ELSE LET body == PublishBody(st, signing, relays, outcomes)
         IN  [threw |-> FALSE,
              value |-> IF body.threw THEN FALSE ELSE body.value,
              signCalls |-> body.signCalls, contacted |-> body.contacted]

MaxPublishRelays == 2

PublishCalls ==
    {[fn |-> "publishNostrYearsStats", args |-> <<hasNip07, signing, relays, outcomes>>] :
        hasNip07 \in BOOLEAN, signing \in 0..Signs,
        relays \in {q \in RequestRelayLists \cup {<<>>} : Len(q) <= MaxPublishRelays},
        outcomes \in [1..MaxPublishRelays -> RelayOutcomes]}

\* texts handed to countCharsWithoutUrls: a text is built from at most
\* MaxSegments segments, each a URL ("http://a", "http://a.png") or plain text
MaxSegments == 3

UrlTokens == {<<"H", "a">>, <<"H", "a", "P">>}

PlainSegments == {<<"a">>, <<" ">>, <<" ", "a", "a">>}

Segments ==
    {[url |-> TRUE, text |-> u] : u \in UrlTokens}
    \cup {[url |-> FALSE, text |-> t] : t \in PlainSegments}

RECURSIVE TextOf(_)
TextOf(segments) ==
    IF segments = <<>> THEN <<>> ELSE Head(segments).text \o TextOf(Tail(segments))

CountCharsCalls ==
    {[fn |-> "countCharsWithoutUrls", args |-> <<segments>>] :
        segments \in UNION {[1..n -> Segments] : n \in 0..MaxSegments}}

\* the cache branch of fetchStats: const cachedStats = { ... } built from
\* the published content that the reconciler returned, with the pubkey and
\* the relays of the request and the profile that was fetched.  The fields
\* of a published content are all present, so that the || defaults are
\* not taken.
cachedStatsOf(pubkey, profile, relays, existingStats) ==
    [pubkey |-> pubkey,
     profile |-> profile,
     relays |-> relays,
     period |-> existingStats.period,
     kind1Count |-> existingStats.kind1Count,
     kind1Chars |-> existingStats.kind1Chars,
     kind30023Count |-> existingStats.kind30023Count,
     kind30023Chars |-> existingStats.kind30023Chars,
     kind6Count |-> existingStats.kind6Count,
     kind7Count |-> existingStats.kind7Count,
     receivedReactionsCount |-> existingStats.receivedReactionsCount,
     kind42Count |-> existingStats.kind42Count,
     imageCount |-> existingStats.imageCount,
     topPosts |-> existingStats.topPosts,
     topReactionEmojis |-> existingStats.topReactionEmojis,
     friendsRanking |-> <<>>,
     monthlyActivity |-> existingStats.monthlyActivity,
     zapsReceived |-> existingStats.zapsReceived,
     zapsSent |-> existingStats.zapsSent]

\* setCachedStats of the hook: the stats it installs
setCachedStats(pubkey, content, profile) ==
    [pubkey |-> pubkey,
     profile |-> profile,
     relays |-> content.relays,
     period |-> content.period,
     kind1Count |-> content.kind1Count,
     kind1Chars |-> content.kind1Chars,
     kind30023Count |-> content.kind30023Count,
     kind30023Chars |-> content.kind30023Chars,
     kind6Count |-> content.kind6Count,
     kind7Count |-> content.kind7Count,
     receivedReactionsCount |-> content.receivedReactionsCount,
     kind42Count |-> content.kind42Count,
     imageCount |-> content.imageCount,
     topPosts |-> content.topPosts,
     topReactionEmojis |-> content.topReactionEmojis,
     friendsRanking |-> <<>>,
     monthlyActivity |-> content.monthlyActivity,
     zapsReceived |-> content.zapsReceived,
     zapsSent |-> content.zapsSent]

MaxSnapshotEvents == 2

\* the snapshots fetchNostrYearsStats returns for at most MaxSnapshotEvents
\* of the events the relays hold
Snapshots ==
    {StatsOf(AccumulateLoops(CHOOSE q \in Perms({e \in S : MatchesFilter("A", e)}) : TRUE,
                             CHOOSE q \in Perms({e \in S : MatchesFilter("B", e)}) : TRUE,
                             CHOOSE q \in Perms({e \in S : MatchesFilter("C", e)}) : TRUE,
                             Subject, 540),
             Subject, profile, relays, PeriodSince, PeriodUntil) :
        S \in {T \in SUBSET Universe : Cardinality(T) <= MaxSnapshotEvents},
        profile \in {Null, [name |-> "n"]},
        relays \in {<<1, 2>>, <<2, 1>>}}

\* a snapshot that was published and is loaded again: by fetchStats for a
\* request with the same relay set, or by setCachedStats
RoundTripCalls ==
    {c \in {[fn |-> "fetchStats", args |-> <<st, relays, profile>>] :
                st \in Snapshots, relays \in {<<1, 2>>, <<2, 1>>},
                profile \in {Null, [name |-> "n"]}} :
        arraysEqual(c.args[2], c.args[1].relays)}
    \cup {[fn |-> "setCachedStats", args |-> <<st, st.relays, st.profile>>] :
            st \in Snapshots}

CallParked ==
    /\ call = [fn |-> "none", args |-> <<>>]
    /\ result = Null

CallInit ==
    /\ call \in BalanceCalls \cup PercentileCalls \cup LoadPercentilesCalls
                \cup SubmitCalls \cup RecentCalls \cup PublishCalls
                \cup CountCharsCalls \cup RoundTripCalls
    /\ result = Null

ApplyBalanceScore ==
    /\ result = Null
    /\ call.fn = "calculateBalanceScore"
    /\ result' = [value |-> calculateBalanceScore(call.args[1], call.args[2])]
    /\ UNCHANGED call

ApplyPercentile ==
    /\ result = Null
    /\ call.fn = "calculatePercentile"
    /\ result' = [value |-> calculatePercentile(call.args[1], call.args[2])]
    /\ UNCHANGED call

ApplyLoadPercentiles ==
    /\ result = Null
    /\ call.fn = "loadPercentiles"
    /\ result' = [value |-> loadPercentiles(call.args[1], call.args[2], call.args[3])]
    /\ UNCHANGED call

ApplyRecent ==
    /\ result = Null
    /\ call.fn = "fetchRecentNostrYearsEvents"
    /\ result' = [value |-> fetchRecentNostrYearsEvents(call.args[1], call.args[2],
                                                        call.args[3])]
    /\ UNCHANGED call

\* YearSummary.handlePublish: publishNostrYearsStats(stats, ...) with the
\* snapshot that is displayed
ApplyPublish ==
    /\ result = Null
    /\ call.fn = "publishNostrYearsStats"
    /\ LET st == StatsOf(EmptyAcc, Subject, Null, FetchRelays, PeriodSince, PeriodUntil)
       IN  result' = [value |-> publishNostrYearsStats(st, call.args[1], call.args[2],
                                                       call.args[3], call.args[4]),
                      stats |-> st]
    /\ UNCHANGED call

ApplyCountChars ==
    /\ result = Null
    /\ call.fn = "countCharsWithoutUrls"
    /\ result' = [value |-> countCharsWithoutUrls(TextOf(call.args[1]))]
    /\ UNCHANGED call

ApplySubmit ==
    /\ result = Null
    /\ call.fn = "handleNpubSubmit"
    /\ result' = [value |-> handleNpubSubmit(call.args[1], call.args[2], call.args[3],
                                             call.args[4], call.args[5])]
    /\ UNCHANGED call

----------------------------------------------------------------------------
(* SpecAccumulate: the processing step of fetchNostrYearsStats on the      *)
(* lists the three phases can have returned.  The relays hold one of the   *)
(* base scenarios and up to MaxExtra further events; each list holds the   *)
(* events that match its phase's filter.                                   *)

MaxExtra == 2

\* a URL-free text of n characters
Text(n) == [i \in 1..n |-> "a"]

\* further events the relays may hold
ExtraEvents ==
    {Event("self1", Subject, 7, Days(6), <<"+">>,
           <<(<<"e", "p1">>), (<<"p", Subject>>)>>),
     Event("z4", "zapper", 9735, Days(7), <<>>,
           <<(<<"p", Subject>>), (<<"P", "bob">>), (<<"bolt11", "lnbc999m">>)>>),
     Event("z5", "zapper", 9735, Days(8), <<>>,
           <<(<<"p", Subject>>), (<<"P", "bob">>)>>),
     Event("z6", "zapper", 9735, Days(9), <<>>,
           <<(<<"p", Subject>>), (<<"P", Subject>>), (<<"bolt11", "lnbc21000m">>)>>)}

\* three posts of 10, 20 and 30 characters
Posts ==
    <<Event("q10", Subject, 1, Days(11), Text(10), <<>>),
      Event("q20", Subject, 1, Days(12), Text(20), <<>>),
      Event("q30", Subject, 1, Days(13), Text(30), <<>>)>>

\* the posts and the reactions they received; a relay that does not apply
\* the kinds of the filter also returns a contact list of the subject
PostsScenario ==
    [own      |-> Posts \o
                  <<Event("k3", Subject, 3, Days(2), <<"a">>, <<(<<"p", "alice">>)>>)>>,
     incoming |-> <<Event("j1", "carol", 7, Days(14), <<"+">>,
                          <<(<<"e", "q20">>), (<<"p", Subject>>)>>),
                    Event("j2", "dave", 7, Days(14), <<"+">>,
                          <<(<<"e", "q10">>), (<<"p", Subject>>)>>),
                    Event("j3", "carol", 7, Days(15), <<"+">>,
                          <<(<<"e", "q30">>), (<<"p", Subject>>)>>),
                    Event("j4", "erin", 7, Days(16), <<"+">>,
                          <<(<<"e", "q10">>), (<<"p", Subject>>)>>)>>,
     zaps     |-> <<>>]

\* the posts and their reactions, and twelve reactions of the subject with
\* eleven different contents, to eleven different identities
EmojisScenario ==
    LET ids     == <<"e1", "e2", "e3", "e4", "e5", "e6", "e7", "e8", "e9", "e10",
                     "e11", "e12">>
        emojis  == <<"g1", "g2", "g3", "g4", "g5", "g6", "g7", "g8", "g9", "g10",
                     "g11", "g5">>
        friends == <<"f1", "f2", "f3", "f4", "f5", "f6", "f7", "f8", "f9", "f10",
                     "f11", "f5">>
    IN  [own      |-> Posts \o
                      [i \in 1..12 |->
                         Event(ids[i], Subject, 7, Days(17) + Hours(i), <<emojis[i]>>,
                               <<(<<"e", "x">>), (<<"p", friends[i]>>)>>)],
         incoming |-> PostsScenario.incoming,
         zaps     |-> <<>>]

EmptyScenario == [own |-> <<>>, incoming |-> <<>>, zaps |-> <<>>]

Scenarios == {EmptyScenario, PostsScenario, EmojisScenario}

\* the sets of at most n of the events the relays may hold
RECURSIVE SetsUpTo(_)
SetsUpTo(n) ==
    IF n = 0 THEN {{}}
    ELSE LET smaller == SetsUpTo(n - 1)
         IN  smaller \cup {S \cup {e} : S \in smaller, e \in Universe \cup ExtraEvents}

ExtraSets == SetsUpTo(MaxExtra)

\* what the query of phase p returns of the events in S, in some order
Returned(S, p) ==
    LET matching == {e \in S : MatchesFilter(p, e)}
    IN  CHOOSE q \in Perms(matching) : TRUE

\* the state in which "await profilePromise" returns
AccumulateInit ==
    /\ pc = "awaitProfile"
    /\ profileState = [st |-> "resolved", value |-> Null]
    /\ phaseSt = [p \in Phases |-> "exhausted"]
    /\ collected = <<>>
    /\ \E base \in Scenarios, S \in ExtraSets :
          /\ ownEvents = base.own \o Returned(S, "A")
          /\ incomingEvents = base.incoming \o Returned(S, "B")
          /\ sentZaps = base.zaps \o Returned(S, "C")
    /\ lastProgressUpdate = Scaled(ProgressStart("B"))
    /\ emitted = <<Progress("fetching_own", Scaled(5)),
                   Progress("fetching_reactions", Scaled(40)),
                   Progress("fetching_reactions", Scaled(70))>>
    /\ delivered = [p \in Phases |->
                      {<<1, e.id>> : e \in Range(CASE p = "A" -> ownEvents
                                                    [] p = "B" -> incomingEvents
                                                    [] p = "C" -> sentZaps)}]
    /\ stats = Null
    /\ interaction = Null
    /\ localTz \in {540, -480}

----------------------------------------------------------------------------
(* The fetcher singleton of nostrFetcher.ts and the invocations of         *)
(* fetchNostrYearsStats that hold an instance of it.                       *)

MaxInstances == 3

InstanceIds == 1..MaxInstances

NoFetcher == 0

\* initFetcher: the module variable and the instances after the call; the
\* instance it returns is the new value of the module variable
initFetcher(current, all) ==
    IF current = NoFetcher
    THEN LET created == CHOOSE id \in InstanceIds :
                            /\ all[id] = "none"
                            /\ \A other \in InstanceIds :
                                  all[other] = "none" => id <= other
         IN  [fetcher |-> created, instances |-> [all EXCEPT ![created] = "live"]]
    ELSE [fetcher |-> current, instances |-> all]

\* shutdownFetcher
shutdownFetcher(current, all) ==
    IF current # NoFetcher
    THEN [fetcher |-> NoFetcher, instances |-> [all EXCEPT ![current] = "shutdown"]]
    ELSE [fetcher |-> current, instances |-> all]

\* an instance can be handed out: there is one, or one can be created
CanInit == fetcher # NoFetcher \/ \E id \in InstanceIds : instances[id] = "none"

\* a retrieval call (allEventsIterator, fetchAllEvents, fetchLastEvent) made
\* on instance f
RetrievalOn(fn, f, all) == [fn |-> fn, on |-> f, live |-> all[f] = "live"]

IdleRun == [pc |-> "idle", f |-> NoFetcher]

FetcherParked ==
    /\ fetcher = NoFetcher
    /\ instances = [id \in InstanceIds |-> "none"]
    /\ runs = [i \in Slots |-> IdleRun]
    /\ summaryShown = FALSE
    /\ retrievals = {}

FetcherInit == FetcherParked

\* fetchNostrYearsStats up to its first await: const f = initFetcher(), the
\* profile fetch (fetchLastEvent) and the query of the first phase
\* (allEventsIterator) are issued
StartRun(i) ==
    /\ runs[i].pc = "idle"
    /\ CanInit
    /\ LET got == initFetcher(fetcher, instances)
       IN  /\ fetcher' = got.fetcher
           /\ instances' = got.instances
           /\ runs' = [runs EXCEPT ![i] = [pc |-> "A", f |-> got.fetcher]]
           /\ retrievals' =
                 retrievals
                   \cup {RetrievalOn("fetchLastEvent", got.fetcher, got.instances),
                         RetrievalOn("allEventsIterator", got.fetcher, got.instances)}
    /\ UNCHANGED summaryShown

\* the awaited query of a phase ends and the query of the next phase is
\* issued on f: allEventsIterator for the second phase, fetchAllEvents for
\* the third
NextPhase(i) ==
    /\ runs[i].pc \in {"A", "B"}
    /\ runs' = [runs EXCEPT ![i].pc = IF runs[i].pc = "A" THEN "B" ELSE "C"]
    /\ retrievals' =
          retrievals
            \cup {RetrievalOn(IF runs[i].pc = "A" THEN "allEventsIterator"
                              ELSE "fetchAllEvents",
                              runs[i].f, instances)}
    /\ UNCHANGED <<fetcher, instances, summaryShown>>

\* the query of the first or of the second phase rejects: fetchNostrYearsStats
\* rejects and fetchStats sets error
FailRun(i) ==
    /\ runs[i].pc \in {"A", "B"}
    /\ runs' = [runs EXCEPT ![i].pc = "failed"]
    /\ UNCHANGED <<fetcher, instances, summaryShown, retrievals>>

\* the last query ends, the snapshot is returned and fetchStats sets stats
FinishRun(i) ==
    /\ runs[i].pc = "C"
    /\ runs' = [runs EXCEPT ![i].pc = "done"]
    /\ summaryShown' = TRUE
    /\ UNCHANGED <<fetcher, instances, retrievals>>

\* a lookup outside fetchNostrYearsStats (fetchProfile, fetchOwnNostrYearsEvent,
\* fetchRecentNostrYearsEvents): initFetcher() and the retrieval call at once
Lookup(fn) ==
    /\ CanInit
    /\ LET got == initFetcher(fetcher, instances)
       IN  /\ fetcher' = got.fetcher
           /\ instances' = got.instances
           /\ retrievals' = retrievals \cup {RetrievalOn(fn, got.fetcher, got.instances)}
    /\ UNCHANGED <<runs, summaryShown>>

\* reset() of the hook, offered by the summary view: stats is cleared and
\* shutdownFetcher() is called
ResetShutsDown ==
    /\ summaryShown
    /\ summaryShown' = FALSE
    /\ LET left == shutdownFetcher(fetcher, instances)
       IN  /\ fetcher' = left.fetcher
           /\ instances' = left.instances
    /\ UNCHANGED <<runs, retrievals>>

----------------------------------------------------------------------------
(* Specifications                                                          *)

Init ==
    FetchInit /\ ScoreParked /\ CacheParked /\ CallParked /\ FetcherParked

Next ==
    \/ /\ \/ FetchStart
          \/ \E r \in Range(FetchRelays), e \in Universe : Deliver(r, e)
          \/ ExhaustPhase
          \/ FailPhase
          \/ ProfileResolves
          \/ AfterOwnEvents
          \/ AfterIncomingEvents
          \/ RejectFromPhase
          \/ AfterSentZaps
          \/ ProcessData
       /\ UNCHANGED <<scoreVars, cacheVars, callVars, fetcherVars>>

Spec == Init /\ [][Next]_vars

InitScoring ==
    FetchParked /\ ScoreInit /\ CacheParked /\ CallParked /\ FetcherParked

NextScoring ==
    Score /\ UNCHANGED <<fetchVars, cacheVars, callVars, fetcherVars>>

SpecScoring == InitScoring /\ [][NextScoring]_vars

InitReconciler ==
    /\ FetchParked /\ ScoreParked /\ CallParked /\ FetcherParked
    /\ ReconcilerInit
    /\ hook = HookInitState
    /\ skipCacheRef = FALSE
    /\ inv = [i \in Slots |-> IdleInvocation]

NextReconciler ==
    /\ CheckCache
    /\ UNCHANGED <<hook, skipCacheRef, inv>>
    /\ UNCHANGED <<fetchVars, scoreVars, callVars, fetcherVars>>

SpecReconciler == InitReconciler /\ [][NextReconciler]_vars

InitCache ==
    FetchParked /\ ScoreParked /\ HookInit /\ CallParked /\ FetcherParked

NextCache ==
    \/ /\ \/ \E i \in Slots, force \in BOOLEAN : FetchStatsCall(i, force)
          \/ \E i \in Slots : ReconcilerReturns(i)
          \/ \E i \in Slots : ProfileReturns(i)
          \/ \E i \in Slots : FetchResolves(i)
          \/ \E i \in Slots : FetchRejects(i)
          \/ LoadCachedResult
          \/ Reset
       /\ UNCHANGED <<fetchVars, scoreVars, callVars, fetcherVars>>

SpecCache == InitCache /\ [][NextCache]_vars

InitAccumulate ==
    AccumulateInit /\ ScoreParked /\ CacheParked /\ CallParked /\ FetcherParked

NextAccumulate ==
    ProcessData /\ UNCHANGED <<scoreVars, cacheVars, callVars, fetcherVars>>

SpecAccumulate == InitAccumulate /\ [][NextAccumulate]_vars

----------------------------------------------------------------------------
(* The loop of fetchWithProgress on its own: the iterator yields any       *)
(* number of events of the period, in any order.  Progress values are kept *)
(* multiplied by periodDuration, as above.                                 *)

YieldGrid == 16

\* created_at of the events the iterator can yield: every YieldGrid hours
\* of the period
YieldTimes ==
    {PeriodSince + n * YieldGrid * 3600 :
        n \in 0..(periodDuration \div (YieldGrid * 3600))}

\* the two calls of fetchWithProgress, with progressStart and progressEnd
ProgressCalls ==
    {[fn |-> "fetchWithProgress",
      args |-> <<ProgressStart(p), ProgressEnd(p)>>] : p \in {"A", "B"}}

\* progressStart + eventProgress * (progressEnd - progressStart)
ProgressOf(created_at, progressStart, progressEnd) ==
    Scaled(progressStart)
        + (PeriodUntil - created_at) * (progressEnd - progressStart)

\* the loop before the first event: lastProgressUpdate = progressStart and
\* nothing emitted; progress and previous hold the last two emitted values
LoopStart(progressStart) ==
    [lastProgressUpdate |-> Scaled(progressStart), emissions |-> 0,
     progress |-> <<>>, previous |-> <<>>]

\* the body of the for-await loop for one yielded event
LoopBody(reg, created_at, progressStart, progressEnd) ==
    LET progress == ProgressOf(created_at, progressStart, progressEnd)
    IN  IF ThrottlePasses(progress, reg.lastProgressUpdate)
        THEN [lastProgressUpdate |-> progress,
              emissions |-> reg.emissions + 1,
              progress |-> <<Min(progress, Scaled(progressEnd))>>,
              previous |-> reg.progress]
        ELSE reg

ProgressInit ==
    /\ call \in ProgressCalls
    /\ result = LoopStart(call.args[1])

YieldEvent(created_at) ==
    /\ call.fn = "fetchWithProgress"
    /\ result' = LoopBody(result, created_at, call.args[1], call.args[2])
    /\ UNCHANGED call

\* the snapshot is published (createEventContent) and the cache branch of
\* fetchStats rebuilds the stats from the published content
ApplyCacheBranch ==
    /\ result = Null
    /\ call.fn = "fetchStats"
    /\ LET content == createEventContent(call.args[1])
       IN  result' = [content |-> content,
                      value |-> cachedStatsOf(call.args[1].pubkey, call.args[3],
                                              call.args[2], content)]
    /\ UNCHANGED call

\* the snapshot is published and setCachedStats rebuilds the stats from the
\* content of a record of the recent-results listing
ApplySetCachedStats ==
    /\ result = Null
    /\ call.fn = "setCachedStats"
    /\ LET content == createEventContent(call.args[1])
       IN  result' = [content |-> content,
                      value |-> setCachedStats(call.args[1].pubkey, content,
                                               call.args[3])]
    /\ UNCHANGED call

InitCalls ==
    FetchParked /\ ScoreParked /\ CacheParked /\ CallInit /\ FetcherParked

NextCalls ==
    \/ /\ \/ ApplyBalanceScore
          \/ ApplyPercentile
          \/ ApplyLoadPercentiles
          \/ ApplySubmit
          \/ ApplyRecent
          \/ ApplyPublish
          \/ ApplyCountChars
          \/ ApplyCacheBranch
          \/ ApplySetCachedStats
       /\ UNCHANGED <<fetchVars, scoreVars, cacheVars, fetcherVars>>

SpecCalls == InitCalls /\ [][NextCalls]_vars

InitProgress ==
    FetchParked /\ ScoreParked /\ CacheParked /\ ProgressInit /\ FetcherParked

NextProgress ==
    /\ \E created_at \in YieldTimes : YieldEvent(created_at)
    /\ UNCHANGED <<fetchVars, scoreVars, cacheVars, fetcherVars>>

SpecProgress == InitProgress /\ [][NextProgress]_vars

InitLifecycle ==
    FetchParked /\ ScoreParked /\ CacheParked /\ CallParked /\ FetcherInit

NextLifecycle ==
    \/ /\ \/ \E i \in Slots : StartRun(i)
          \/ \E i \in Slots : NextPhase(i)
          \/ \E i \in Slots : FinishRun(i)
          \/ \E i \in Slots : FailRun(i)
          \/ \E fn \in {"fetchLastEvent", "fetchAllEvents"} : Lookup(fn)
          \/ ResetShutsDown
       /\ UNCHANGED <<fetchVars, scoreVars, cacheVars, callVars>>

SpecLifecycle == InitLifecycle /\ [][NextLifecycle]_vars

----------------------------------------------------------------------------
(* Properties of calculateFriendScores (SpecScoring)                       *)

\* the identities of the input whose outgoingReactions count is positive
EligibleIds == {i \in 1..NumIds : scoreInput.counts[i].outR > 0}

Pubkeys(list) == {list[n].pubkey : n \in 1..Len(list)}

\* a is placed no later than b: more outgoingReactions, or as many and a
\* balanceScore at least as high
NoWorse(a, b) ==
    \/ a.outgoingReactions > b.outgoingReactions
    \/ /\ a.outgoingReactions = b.outgoingReactions
       /\ BalanceDiff(a.balanceScore, b.balanceScore) >= 0

----------------------------------------------------------------------------
(* Properties of the reconciler and the cache check (SpecReconciler)       *)

Reverse(q) == [i \in 1..Len(q) |-> q[Len(q) + 1 - i]]

\* the published records with every relay list written in reverse order
ReversePublished ==
    {[e EXCEPT !.content.relays = Reverse(@)] : e \in published}

\* both are misses, or both are hits on the same published record
SameOutcome(x, y) ==
    \/ x = Null /\ y = Null
    \/ x # Null /\ y # Null /\ x.kind1Count = y.kind1Count

\* C6: a cache hit returns a published snapshot whose relays are, as a set,
\* the requested relays (never a strict subset or superset), and writing the
\* requested relays or the published relays in another order gives the same
\* outcome.
C6_RelaySetMatch ==
    lookup.state = "done" =>
        /\ lookup.existing # Null =>
              Range(lookup.existing.relays) = Range(request.relays)
        /\ \A other \in Perms(Range(request.relays)) :
              SameOutcome(CacheCheck(published, lookup.queryFails, other,
                                     request.period.since, request.period.until),
                          lookup.existing)
        /\ SameOutcome(CacheCheck(ReversePublished, lookup.queryFails,
                                  request.relays, request.period.since,
                                  request.period.until),
                       lookup.existing)

\* a hit on a snapshot that lists the requested relays in another order,
\* while a snapshot with a strict subset of them is published as well
C6_Witness ==
    /\ lookup.state = "done"
    /\ lookup.existing # Null
    /\ lookup.existing.relays # request.relays
    /\ \E e \in published :
          /\ Range(e.content.relays) \subseteq Range(request.relays)
          /\ Range(e.content.relays) # Range(request.relays)

\* the same URLs, each as many times
SameRelays(a, b) ==
    \A u \in RelayUrls :
        Cardinality({i \in 1..Len(a) : a[i] = u})
            = Cardinality({i \in 1..Len(b) : b[i] = u})

\* the published snapshots of the current version, the requested relays and
\* the requested period
MatchingPublished ==
    {e \in published :
        /\ e.content.version = NOSTR_YEARS_VERSION
        /\ SameRelays(e.content.relays, request.relays)
        /\ e.content.period = request.period}

\* C7: when the relays answer and a published snapshot has the current
\* version, the requested relays and the requested period, the cache check is
\* a hit on the most recently created such snapshot; a snapshot of another
\* version or period is never used.
C7_CacheLookupComplete ==
    (lookup.state = "done" /\ ~lookup.queryFails) =>
        /\ MatchingPublished # {} =>
              /\ lookup.existing # Null
              /\ \E e \in MatchingPublished :
                    /\ e.content = lookup.existing
                    /\ \A o \in MatchingPublished : o.created_at <= e.created_at
        /\ lookup.existing # Null =>
              /\ lookup.existing.version = NOSTR_YEARS_VERSION
              /\ lookup.existing.period = request.period

----------------------------------------------------------------------------
(* Properties of useNostrStats.fetchStats (SpecCache)                      *)

----------------------------------------------------------------------------
(* Properties of fetchNostrYearsStats (Spec)                               *)

\* C1: the progress values handed to onProgress within one invocation never
\* decrease: each emitted value is at least the value emitted before it.
C1_ProgressMonotone ==
    \A k \in 1..(Len(emitted) - 1) :
        emitted[k].progress <= emitted[k + 1].progress

\* C3: when the query of a retrieval phase throws, fetchNostrYearsStats does
\* not reject; the failed phase contributes no event and the snapshot is
\* still returned.
C3_PhaseFailureTolerated ==
    /\ pc # "rejected"
    /\ pc = "done" =>
          /\ stats # Null
          /\ phaseSt["A"] = "failed" => ownEvents = <<>>
          /\ phaseSt["B"] = "failed" => incomingEvents = <<>>
          /\ phaseSt["C"] = "failed" => sentZaps = <<>>

PhaseCompleted(p) == phaseSt[p] \in {"exhausted", "failed"}

\* C4: the query of phase B is issued only after the stream of phase A is
\* exhausted and the query of phase C only after the stream of phase B is
\* exhausted; the profile lookup is started before phase A, it is awaited
\* only after phase C has completed, and the accumulation runs only after
\* phase C and the profile lookup have both completed.
C4_PhasesSequential ==
    /\ phaseSt["A"] # "idle" => profileState.st # "notStarted"
    /\ phaseSt["B"] # "idle" => phaseSt["A"] = "exhausted"
    /\ phaseSt["C"] # "idle" => phaseSt["B"] = "exhausted"
    /\ pc = "awaitProfile" => PhaseCompleted("C")
    /\ (pc = "done" \/ stats # Null \/ interaction # Null) =>
          /\ PhaseCompleted("C")
          /\ profileState.st = "resolved"

\* phase C is open after phases A and B each yielded an event, and the
\* profile lookup started at the beginning is still pending
C4_Witness ==
    /\ pc = "C" /\ phaseSt["C"] = "open"
    /\ Len(ownEvents) > 0 /\ Len(incomingEvents) > 0
    /\ profileState.st = "pending"

\* the events at least one relay delivered in phase p
DeliveredEvents(p) ==
    {e \in Universe : \E r \in Range(FetchRelays) : <<r, e.id>> \in delivered[p]}

OwnSet == DeliveredEvents("A")

\* events of phase B signed by somebody else
IncomingSet == {e \in DeliveredEvents("B") : e.pubkey # Subject}

SentSet == IF phaseSt["C"] = "failed" THEN {} ELSE DeliveredEvents("C")

OfKind(S, kind) == {e \in S : e.kind = kind}

\* the sum of the second components of a set of pairs
RECURSIVE SumPairs(_)
SumPairs(S) ==
    IF S = {} THEN 0
    ELSE LET x == CHOOSE y \in S : TRUE IN x[2] + SumPairs(S \ {x})

Others == {"alice", "bob", "zapper"}

ReactionsIn == {e \in OfKind(IncomingSet, 7) : TagsFind(e.tags, "e") # <<>>}

CountedZaps(S) == {e \in OfKind(S, 9735) : ZapSats(e) > 0}

ExpectedZaps(S) ==
    LET total == SumPairs({<<e.id, ZapSats(e)>> : e \in CountedZaps(S)})
        count == Cardinality(CountedZaps(S))
    IN  [count |-> count, totalSats |-> total,
         averageSats |-> IF count = 0 THEN 0 ELSE (2 * total + count) \div (2 * count)]

KindField(kind) ==
    CASE kind = 1 -> "kind1" [] kind = 6 -> "kind6" [] kind = 7 -> "kind7"
      [] kind = 42 -> "kind42" [] kind = 30023 -> "kind30023"

\* what is counted in the month histogram: <<event, month, field>>
MonthEntries ==
    {<<e.id, getMonthKey(e.created_at, localTz), KindField(e.kind)>> : e \in OwnSet}
    \cup {<<e.id, getMonthKey(e.created_at, localTz), "receivedReactions">> :
             e \in ReactionsIn}
    \cup {<<e.id, getMonthKey(e.created_at, localTz), "zapsReceived">> :
             e \in CountedZaps(IncomingSet)}
    \cup {<<e.id, getMonthKey(e.created_at, localTz), "zapsSent">> :
             e \in CountedZaps(SentSet)}

MonthCount(entries, m, field) ==
    Cardinality({x \in entries : x[2] = m /\ x[3] = field})

ExpectedMonths ==
    LET entries == MonthEntries
    IN  {[month |-> m,
          kind1 |-> MonthCount(entries, m, "kind1"),
          kind6 |-> MonthCount(entries, m, "kind6"),
          kind7 |-> MonthCount(entries, m, "kind7"),
          kind42 |-> MonthCount(entries, m, "kind42"),
          kind30023 |-> MonthCount(entries, m, "kind30023"),
          receivedReactions |-> MonthCount(entries, m, "receivedReactions"),
          zapsSent |-> MonthCount(entries, m, "zapsSent"),
          zapsReceived |-> MonthCount(entries, m, "zapsReceived")] :
            m \in {x[2] : x \in entries}}

\* <<identity, count>> for the identities with a positive count, where an
\* identity's count is the number of events of S that name it in a p tag
ByTarget(S) ==
    {<<t, Cardinality({e \in S : HasTagValue(e, "p", t)})>> :
        t \in {o \in Others : \E e \in S : HasTagValue(e, "p", o)}}

\* the same, counting the events of S an identity signed
BySender(S) ==
    {<<t, Cardinality({e \in S : e.pubkey = t})>> :
        t \in {o \in Others : \E e \in S : e.pubkey = o}}

Emoji(e) == IF e.content = <<>> THEN <<"+">> ELSE e.content

ExpectedEmojis ==
    {[emoji |-> Emoji(x),
      count |-> Cardinality({e \in OfKind(OwnSet, 7) : Emoji(e) = Emoji(x)})] :
        x \in OfKind(OwnSet, 7)}

ExpectedPosts ==
    {[id |-> x.id,
      reactionCount |-> Cardinality({e \in ReactionsIn : HasTagValue(e, "e", x.id)})] :
        x \in {o \in OfKind(OwnSet, 1) :
                  \E e \in ReactionsIn : HasTagValue(e, "e", o.id)}}

OrderFreePart(st, inter) ==
    [kind1Count |-> st.kind1Count, kind1Chars |-> st.kind1Chars,
     kind30023Count |-> st.kind30023Count, kind30023Chars |-> st.kind30023Chars,
     kind6Count |-> st.kind6Count, kind7Count |-> st.kind7Count,
     kind42Count |-> st.kind42Count, imageCount |-> st.imageCount,
     receivedReactionsCount |-> st.receivedReactionsCount,
     zapsReceived |-> st.zapsReceived, zapsSent |-> st.zapsSent,
     monthlyActivity |-> st.monthlyActivity,
     hourlyActivity |-> st.hourlyActivity,
     outgoingReactions |-> MapAsSet(inter.outgoingReactions),
     outgoingReplies |-> MapAsSet(inter.outgoingReplies),
     incomingReactions |-> MapAsSet(inter.incomingReactions),
     incomingReplies |-> MapAsSet(inter.incomingReplies)]

\* the snapshot the accumulation returns for the three lists own, incoming
\* and zaps, with its affinity counts
SnapshotOf(own, incoming, zaps) ==
    LET acc == AccumulateLoops(own, incoming, zaps, Subject, localTz)
    IN  [stats |-> StatsOf(acc, Subject, profileState.value, FetchRelays,
                           PeriodSince, PeriodUntil),
         interaction |-> InteractionOf(acc)]

\* entries of equal count may be ordered differently: the same entries, each
\* list in descending count
SameUpToTies(xs, ys, field) ==
    /\ Range(xs) = Range(ys)
    /\ Len(xs) = Len(ys)
    /\ \A k \in 1..(Len(xs) - 1) : xs[k][field] >= xs[k + 1][field]
    /\ \A k \in 1..(Len(ys) - 1) : ys[k][field] >= ys[k + 1][field]

\* the same ranking entries, each list ordered by the comparator of the
\* ranking; entries equal in both keys may be ordered differently
SameRankingUpToTies(xs, ys) ==
    /\ Range(xs) = Range(ys)
    /\ Len(xs) = Len(ys)
    /\ \A k \in 1..(Len(xs) - 1) : CompareScores(xs[k], xs[k + 1]) <= 0
    /\ \A k \in 1..(Len(ys) - 1) : CompareScores(ys[k], ys[k + 1]) <= 0

----------------------------------------------------------------------------
(* Properties of the functions of scoring.ts and textAnalysis.ts           *)
(* (SpecCalls)                                                             *)

\* C11: for non-negative totals sent and received, calculateBalanceScore
\* returns 1 - |sent - received| / (sent + received), and 0 when both are 0;
\* the value lies in [0, 1], is 1 exactly when sent = received > 0, and is 0
\* when exactly one of the totals is 0.
C11_BalanceMetric ==
    (call.fn = "calculateBalanceScore" /\ result # Null) =>
        LET sent     == call.args[1]
            received == call.args[2]
            b        == result.value
        IN  /\ b.den > 0
            /\ IF sent + received = 0 THEN b.num = 0
               ELSE b.num * (sent + received)
                        = b.den * ((sent + received) - Abs(sent - received))
            /\ 0 <= b.num /\ b.num <= b.den
            /\ (b.num = b.den) <=> (sent = received /\ sent > 0)
            /\ ((sent = 0) # (received = 0)) => b.num = 0

\* calculateBalanceScore(5, 5) has returned 1
C11_Witness ==
    /\ call.fn = "calculateBalanceScore"
    /\ call.args = <<5, 5>>
    /\ result # Null
    /\ result.value.num = result.value.den

C13_PopulationRestricted ==
    (call.fn = "loadPercentiles" /\ result # Null) =>
        \A k \in 1..Len(result.value) :
            /\ result.value[k].version = NOSTR_YEARS_VERSION
            /\ result.value[k].hasRelays
            /\ Range(result.value[k].relays) = Range(call.args[3])

----------------------------------------------------------------------------
(* Properties of the processing step (SpecAccumulate)                      *)

\* the millisatoshis a zap receipt carries: 0 without a bolt11 tag, with an
\* invoice the decoder rejects, or with an invoice without amount
MilliSats(e) ==
    IF \E i \in 1..Len(e.tags) : Len(e.tags[i]) >= 2 /\ e.tags[i][1] = "bolt11"
    THEN LET tag == e.tags[CHOOSE i \in 1..Len(e.tags) :
                              Len(e.tags[i]) >= 2 /\ e.tags[i][1] = "bolt11"]
             decoded == decodeBolt11(tag[2])
         IN  IF decoded.throws \/ ~decoded.hasAmount THEN 0 ELSE decoded.value
    ELSE 0

\* the zap receipts of a list that carry at least 1 sat
ZapsOfAtLeastOneSat(list) ==
    {e \in Range(list) : e.kind = 9735 /\ MilliSats(e) >= 1000}

SumSats(S) == SumPairs({<<e.id, MilliSats(e) \div 1000>> : e \in S})

\* the sum of a field over the entries of a histogram
SumField(entries, field) ==
    SumPairs({<<i, entries[i][field]>> : i \in 1..Len(entries)})

ZapStatsConsistent(z) ==
    /\ (z.count = 0) <=> (z.totalSats = 0)
    /\ z.totalSats >= z.count
    /\ IF z.count = 0 THEN z.averageSats = 0
       ELSE /\ 2 * z.count * z.averageSats - z.count <= 2 * z.totalSats
            /\ 2 * z.totalSats < 2 * z.count * z.averageSats + z.count

\* C14: in a returned snapshot, zapsReceived and zapsSent count exactly the
\* receipts that carry at least 1 sat, totalSats is the sum of their whole
\* sats and the month buckets count the same receipts; a receipt without
\* bolt11 tag, with an undecodable invoice or with less than 1 sat adds
\* nothing.  Hence count = 0 iff totalSats = 0, totalSats >= count, and
\* averageSats is totalSats / count rounded, or 0.
C14_ZapAccumulation ==
    pc = "done" =>
        LET received == {e \in ZapsOfAtLeastOneSat(incomingEvents) : e.pubkey # Subject}
            sent     == ZapsOfAtLeastOneSat(sentZaps)
        IN  /\ stats.zapsReceived.count = Cardinality(received)
            /\ stats.zapsReceived.totalSats = SumSats(received)
            /\ stats.zapsSent.count = Cardinality(sent)
            /\ stats.zapsSent.totalSats = SumSats(sent)
            /\ SumField(stats.monthlyActivity, "zapsReceived") = Cardinality(received)
            /\ SumField(stats.monthlyActivity, "zapsSent") = Cardinality(sent)
            /\ ZapStatsConsistent(stats.zapsReceived)
            /\ ZapStatsConsistent(stats.zapsSent)

\* a snapshot was returned for a received zap of 2500 millisats and a
\* received zap of 999 millisats
C14_Witness ==
    /\ pc = "done"
    /\ \E e \in Range(incomingEvents) :
          e.kind = 9735 /\ MilliSats(e) > 0 /\ MilliSats(e) < 1000
    /\ stats.zapsReceived = [count |-> 1, totalSats |-> 2, averageSats |-> 2]

\* the events of the three lists
ListedEvents == Range(ownEvents) \cup Range(incomingEvents) \cup Range(sentZaps)

\* C15: the month bucket and the hour bucket of an event depend on its
\* created_at under the fixed offset UTC+9 only: the month histogram of the
\* returned snapshot is the one the same lists give under any other local
\* offset of the running environment, every month key is the UTC+9 month of
\* a listed event, and the hour is (UTC hour + 9) mod 24, in 0..23.
C15_BucketsFixedOffset ==
    pc = "done" =>
        /\ \A tz \in {540, -480} :
               monthlyActivityOf(AccumulateLoops(ownEvents, incomingEvents, sentZaps,
                                                 Subject, tz).monthlyMap)
                   = stats.monthlyActivity
        /\ \A i \in 1..Len(stats.monthlyActivity) :
               \E e \in ListedEvents :
                   stats.monthlyActivity[i].month
                       = CivilYearMonth((e.created_at + 9 * 3600) \div 86400)
        /\ \A e \in ListedEvents :
               /\ getHourJST(e.created_at) \in 0..23
               /\ getHourJST(e.created_at) = ((e.created_at + 9 * 3600) \div 3600) % 24

MonthFields ==
    {"kind1", "kind6", "kind7", "kind42", "kind30023", "receivedReactions",
     "zapsSent", "zapsReceived"}

\* the sum of all the counts of the month histogram
SumMonths(entries) ==
    SumPairs({<<f, SumField(entries, f)>> : f \in MonthFields})

\* C16: every counted event increments exactly one month bucket and exactly
\* one hour bucket, so the counts of hourlyActivity sum to the counts of all
\* the month buckets; hourlyActivity has exactly 24 entries, for the hours
\* 0..23 in ascending order.
C16_MonthAndHourPerEvent ==
    pc = "done" =>
        /\ SumField(stats.hourlyActivity, "count") = SumMonths(stats.monthlyActivity)
        /\ Len(stats.hourlyActivity) = 24
        /\ \A i \in 1..24 : stats.hourlyActivity[i].hour = i - 1

NotBySubject(e) == e.pubkey # Subject

\* C17: the subject never interacts with itself.  Its pubkey is not a key of
\* any of the four interaction maps and is not in friendsRanking, and the
\* incoming events the subject authored change nothing: the snapshot is the
\* one the lists give without them.
C17_NoSelfInteraction ==
    pc = "done" =>
        /\ \A m \in {"outgoingReactions", "outgoingReplies",
                      "incomingReactions", "incomingReplies"} :
               \A i \in 1..Len(interaction[m]) : interaction[m][i].key # Subject
        /\ \A i \in 1..Len(stats.friendsRanking) :
               stats.friendsRanking[i].pubkey # Subject
        /\ (\E e \in Range(incomingEvents) : ~NotBySubject(e)) =>
               stats = StatsOf(AccumulateLoops(ownEvents,
                                               SelectSeq(incomingEvents, NotBySubject),
                                               sentZaps, Subject, localTz),
                               Subject, profileState.value, FetchRelays,
                               PeriodSince, PeriodUntil)

\* a snapshot was returned for a reaction of the subject to its own post
\* that names the subject in a p tag and is in both the own and the
\* incoming list
C17_Witness ==
    /\ pc = "done"
    /\ \E e \in Range(incomingEvents) :
          /\ e \in Range(ownEvents)
          /\ e.pubkey = Subject /\ e.kind = 7
          /\ HasTagValue(e, "p", Subject)
          /\ \E post \in Range(ownEvents) :
                post.kind = 1 /\ HasTagValue(e, "e", post.id)
    /\ stats.kind7Count = 1
    /\ stats.receivedReactionsCount = 0

\* C18: received reactions are counted only for the subject's own posts: a
\* reaction of another author that references no own kind-1 post changes
\* neither receivedReactionsCount nor incomingReactions, so that
\* receivedReactionsCount is the sum of the per-post reaction counters, the
\* number of listed reactions of others to own posts.
C18_ReactionsToOwnPostsOnly ==
    pc = "done" =>
        LET posts    == {e.id : e \in OfKind(Range(ownEvents), 1)}
            received == {e \in OfKind(Range(incomingEvents), 7) :
                            /\ e.pubkey # Subject
                            /\ \E id \in posts : TagsFind(e.tags, "e") = <<"e", id>>}
            perPost  == AccumulateLoops(ownEvents, incomingEvents, sentZaps,
                                        Subject, localTz).kind1ReactionCounts
        IN  /\ stats.receivedReactionsCount = Cardinality(received)
            /\ stats.receivedReactionsCount = SumField(perPost, "count")
            /\ SumField(interaction.incomingReactions, "count") = Cardinality(received)

CountedKinds == {1, 6, 7, 42, 30023}

HasCountedKind(e) == e.kind \in CountedKinds

\* the length of a content without its URLs and without the white space
\* at its ends: "aa http://a.png" leaves "aa", "http://a.png?a a" leaves
\* "a", "a http://a" leaves "a"; a content of "a" only is left as it is
StrippedLength(content) ==
    CASE content = <<"a", "a", " ", "H", "a", "P">> -> 2
      [] content = <<"H", "a", "P", "Q", "a", " ", "a">> -> 1
      [] content = <<"a", " ", "H", "a">> -> 1
      [] \A i \in 1..Len(content) : content[i] = "a" -> Len(content)
      [] OTHER -> -1

SumStripped(S) == SumPairs({<<e.id, StrippedLength(e.content)>> : e \in S})

\* C19: kind1Count, kind6Count, kind7Count, kind42Count and kind30023Count
\* are the numbers of own events of the kinds 1, 6, 7, 42 and 30023; own
\* events of another kind change nothing; kind1Chars is the sum of the
\* URL-stripped, trimmed lengths of the kind-1 contents and kind30023Chars
\* that of the kind-30023 contents.
C19_PerKindCounts ==
    pc = "done" =>
        LET own == Range(ownEvents)
        IN  /\ stats.kind1Count = Cardinality(OfKind(own, 1))
            /\ stats.kind6Count = Cardinality(OfKind(own, 6))
            /\ stats.kind7Count = Cardinality(OfKind(own, 7))
            /\ stats.kind42Count = Cardinality(OfKind(own, 42))
            /\ stats.kind30023Count = Cardinality(OfKind(own, 30023))
            /\ stats.kind1Chars = SumStripped(OfKind(own, 1))
            /\ stats.kind30023Chars = SumStripped(OfKind(own, 30023))
            /\ (\E e \in own : ~HasCountedKind(e)) =>
                   stats = StatsOf(AccumulateLoops(SelectSeq(ownEvents, HasCountedKind),
                                                   incomingEvents, sentZaps,
                                                   Subject, localTz),
                                   Subject, profileState.value, FetchRelays,
                                   PeriodSince, PeriodUntil)

\* a snapshot was returned for three URL-free posts of 10, 20 and 30
\* characters, an article with a URL and an own event of kind 3
C19_Witness ==
    /\ pc = "done"
    /\ {Len(e.content) : e \in OfKind(Range(ownEvents), 1)} = {10, 20, 30}
    /\ \A e \in OfKind(Range(ownEvents), 1) : StrippedLength(e.content) = Len(e.content)
    /\ \E e \in Range(ownEvents) : e.kind = 3
    /\ \E e \in Range(ownEvents) : e.kind = 30023 /\ StrippedLength(e.content) < Len(e.content)
    /\ stats.kind1Count = 3
    /\ stats.kind1Chars = 60
    /\ stats.kind30023Count = 1
    /\ stats.kind30023Chars = 1

\* the positions in incomingEvents of the reactions of others to the own
\* post id
ReactionsTo(id) ==
    {i \in 1..Len(incomingEvents) :
        /\ incomingEvents[i].kind = 7
        /\ incomingEvents[i].pubkey # Subject
        /\ TagsFind(incomingEvents[i].tags, "e") = <<"e", id>>}

\* the positions in ownEvents of the reactions with the content emoji
ReactionsWith(emoji) ==
    {i \in 1..Len(ownEvents) :
        ownEvents[i].kind = 7 /\ Emoji(ownEvents[i]) = emoji}

First(S) == CHOOSE i \in S : \A j \in S : i <= j

ReactedPosts == {e.id : e \in {x \in OfKind(Range(ownEvents), 1) : ReactionsTo(x.id) # {}}}

UsedEmojis == {Emoji(e) : e \in OfKind(Range(ownEvents), 7)}

----------------------------------------------------------------------------
(* Properties of the input form (SpecCalls)                                *)

\* the key inputs that denote a public key
ValidKeyInputs == {"hex", "HEX", "npub1ok"}

\* C21: a submission with an empty relay list, an invalid public key or
\* periodSince >= periodUntil (in particular an end date before the start
\* date) sets an error and calls neither onSubmit nor fetchStats; any other
\* submission sets no error and calls fetchStats once, with the parsed key,
\* the relays and the period.
C21_ConfigurationErrorsRejected ==
    (call.fn = "handleNpubSubmit" /\ result # Null) =>
        LET key         == call.args[1]
            relays      == call.args[2]
            periodSince == getUnixTimestamp(call.args[3], FALSE, call.args[5])
            periodUntil == getUnixTimestamp(call.args[4], TRUE, call.args[5])
            rejected    == \/ relays = <<>>
                           \/ key \notin ValidKeyInputs
                           \/ periodSince >= periodUntil
        IN  /\ call.args[4] < call.args[3] => rejected
            /\ rejected => /\ result.value.error # <<>>
                            /\ result.value.onSubmit = <<>>
                            /\ result.value.fetchStats = <<>>
            /\ ~rejected => /\ result.value.error = <<>>
                             /\ result.value.fetchStats =
                                   <<[pubkey |-> "hex", relays |-> relays,
                                      periodSince |-> periodSince,
                                      periodUntil |-> periodUntil]>>

\* a submission with a valid key and a relay whose end date is before its
\* start date was rejected
C21_Witness ==
    /\ call.fn = "handleNpubSubmit"
    /\ result # Null
    /\ call.args[1] = "npub1ok"
    /\ call.args[2] = <<1>>
    /\ call.args[4] < call.args[3]
    /\ result.value.error = <<"Start date must be before end date">>
    /\ result.value.fetchStats = <<>>

----------------------------------------------------------------------------
(* Properties of the recent-results listing (SpecCalls)                    *)

\* C22: fetchRecentNostrYearsEvents(relays, limit) returns at most limit
\* entries, at most one per author, sorted by createdAt descending; the
\* entry of an author is the most recently created record of that author;
\* a record with malformed JSON is never an entry.
C22_RecentListing ==
    (call.fn = "fetchRecentNostrYearsEvents" /\ result # Null) =>
        LET events  == call.args[1]
            limit   == call.args[3]
            entries == result.value
        IN  /\ Len(entries) <= limit
            /\ \A i, j \in 1..Len(entries) :
                   i < j => /\ entries[i].pubkey # entries[j].pubkey
                            /\ entries[i].createdAt >= entries[j].createdAt
            /\ \A i \in 1..Len(entries) :
                   /\ \E e \in events :
                         /\ e.pubkey = entries[i].pubkey
                         /\ e.created_at = entries[i].createdAt
                         /\ e.json /\ e.content = entries[i].content
                   /\ \A e \in events :
                         e.pubkey = entries[i].pubkey
                             => e.created_at <= entries[i].createdAt

----------------------------------------------------------------------------
(* Properties of publishing (SpecCalls)                                    *)

\* C23: publishNostrYearsStats never throws.  Without signing capability it
\* returns false without signing or contacting a relay; when signing throws
\* it returns false without contacting a relay; otherwise every relay is
\* contacted whatever happens on the others, and the result is true iff at
\* least one relay accepted both events.  The snapshot is unchanged.
C23_PublishDegrades ==
    (call.fn = "publishNostrYearsStats" /\ result # Null) =>
        LET hasNip07 == call.args[1]
            signing  == call.args[2]
            relays   == call.args[3]
            outcomes == call.args[4]
            r        == result.value
        IN  /\ ~r.threw
            /\ r.value \in BOOLEAN
            /\ ~hasNip07 => ~r.value /\ r.signCalls = 0 /\ r.contacted = <<>>
            /\ (hasNip07 /\ signing < 2) => ~r.value /\ r.contacted = <<>>
            /\ (hasNip07 /\ signing = 2) =>
                   /\ Len(r.contacted) = Len(relays)
                   /\ \A i \in 1..Len(relays) :
                          /\ r.contacted[i].relay = relays[i]
                          /\ outcomes[i] # "connectFails"
                                => r.contacted[i].published # <<>>
                   /\ r.value <=> \E i \in 1..Len(relays) : outcomes[i] = "accepted"
            /\ result.stats = StatsOf(EmptyAcc, Subject, Null, FetchRelays,
                                      PeriodSince, PeriodUntil)

\* a publication was signed, failed to connect to the first relay and was
\* accepted by the second
C23_Witness ==
    /\ call.fn = "publishNostrYearsStats"
    /\ result # Null
    /\ call.args[1] /\ call.args[2] = 2
    /\ Len(call.args[3]) = 2
    /\ call.args[4][1] = "connectFails"
    /\ call.args[4][2] = "accepted"
    /\ result.value.value
    /\ result.value.contacted[2].published = <<"stats", "note">>

----------------------------------------------------------------------------
(* Properties of the character count (SpecCalls)                           *)

Swapped(segments, i, j) ==
    [k \in 1..Len(segments) |->
        IF k = i THEN segments[j] ELSE IF k = j THEN segments[i] ELSE segments[k]]

\* the segments with every URL deleted
WithoutUrls(segments) ==
    [k \in 1..Len(segments) |->
        IF segments[k].url THEN [url |-> TRUE, text |-> <<>>] ELSE segments[k]]

\* C24: for a text built from plain-text segments and URLs,
\* countCharsWithoutUrls is the length of the text with all the URLs deleted
\* and then trimmed, every occurrence of a repeated URL included, and it is
\* unchanged when two URLs swap positions.
C24_UrlStrippedCount ==
    (call.fn = "countCharsWithoutUrls" /\ result # Null) =>
        LET segments == call.args[1]
        IN  /\ result.value = TextLength(Trim(TextOf(WithoutUrls(segments))))
            /\ \A i, j \in 1..Len(segments) :
                   (segments[i].url /\ segments[j].url)
                       => countCharsWithoutUrls(TextOf(Swapped(segments, i, j)))
                              = result.value

----------------------------------------------------------------------------
(* Properties of discarded invocations (SpecCache)                         *)

\* invocation i completes in this step
Completes(i) ==
    /\ inv[i].pc \in {"awaitReconciler", "awaitProfile", "awaitFetch"}
    /\ inv'[i].pc \in {"done", "failed"}

\* C25: an invocation of fetchStats that was discarded never takes effect.
\* When an invocation completes after a newer fetchStats was started, it
\* changes neither stats nor progress, isFromCache or isLoading; and after
\* reset(), as long as no fetchStats has been started (skipCacheRef is still
\* set), no invocation that completes installs stats.
C25_DiscardedNeverTakesEffect ==
    [][/\ \A i \in Slots :
            (Completes(i) /\ \E j \in Slots : j > i /\ inv[j].pc # "idle")
                => /\ hook'.stats = hook.stats
                   /\ hook'.progress = hook.progress
                   /\ hook'.isFromCache = hook.isFromCache
                   /\ hook'.isLoading = hook.isLoading
       /\ \A i \in Slots :
            (Completes(i) /\ skipCacheRef) => hook'.stats = hook.stats]_vars

----------------------------------------------------------------------------
(* Properties of the throttle of fetchWithProgress (SpecProgress)          *)

\* C26: within a phase the emissions of fetchWithProgress are at least 2
\* points above the value recorded at the previous emission (initially
\* progressStart): successive emitted values are strictly increasing and at
\* least 2 apart, every emitted value lies in
\* [progressStart + 2, progressEnd], and there are at most
\* (progressEnd - progressStart) / 2 emissions, however many events are
\* yielded.
C26_ProgressThrottled ==
    call.fn = "fetchWithProgress" =>
        LET pStart == Scaled(call.args[1])
            pEnd == Scaled(call.args[2])
        IN  /\ result.emissions * Scaled(2) <= pEnd - pStart
            /\ (result.emissions = 0) <=> (result.progress = <<>>)
            /\ result.progress # <<>> =>
                   /\ pStart + Scaled(2) <= result.progress[1]
                   /\ result.progress[1] <= pEnd
                   /\ result.progress[1] = result.lastProgressUpdate
            /\ result.previous # <<>> =>
                   result.progress[1] - result.previous[1] >= Scaled(2)

\* several emissions in one phase, the last one exactly 2 points above the
\* one before it
C26_Witness ==
    /\ call.fn = "fetchWithProgress"
    /\ result.emissions >= 3
    /\ result.previous # <<>>
    /\ result.progress[1] - result.previous[1] = Scaled(2)

----------------------------------------------------------------------------
(* Properties of publishing and loading a snapshot (SpecCalls)             *)

\* the fields of a snapshot that are published, relays and period apart
MetricFields ==
    {"kind1Count", "kind1Chars", "kind30023Count", "kind30023Chars",
     "kind6Count", "kind7Count", "kind42Count", "imageCount",
     "receivedReactionsCount", "topPosts", "topReactionEmojis",
     "monthlyActivity", "hourlyActivity", "zapsReceived", "zapsSent"}

\* C27: the stats rebuilt from createEventContent(s) through the cache
\* path (the cache branch of fetchStats or setCachedStats) equal s on the
\* relay set, on the period and on every published metric field, with an
\* empty friendsRanking; the published content has the current version
\* and contains neither friendsRanking nor pubkey nor profile.
C27_PublishLoadRoundTrip ==
    (call.fn \in {"fetchStats", "setCachedStats"} /\ result # Null) =>
        LET st == call.args[1]
            rebuilt == result.value
        IN  /\ arraysEqual(rebuilt.relays, st.relays)
            /\ rebuilt.period = st.period
            /\ \A field \in MetricFields :
                   /\ field \in DOMAIN rebuilt
                   /\ rebuilt[field] = st[field]
            /\ rebuilt.friendsRanking = <<>>
            /\ result.content.version = NOSTR_YEARS_VERSION
            /\ DOMAIN result.content
                   \cap {"friendsRanking", "pubkey", "profile"} = {}

----------------------------------------------------------------------------
(* Properties of the skip-cache flag (SpecCache)                           *)

\* fetchStats is called in this step, as invocation i
StartsFetch(i) == inv[i].pc = "idle" /\ inv'[i].pc # "idle"

\* reset() is called in this step
ResetStep == hook.stats # Null /\ hook'.stats = Null

\* C28: reset() arms a one-shot cache bypass.  The flag is unset at first,
\* reset() sets it and only a call of fetchStats clears it; a fetchStats
\* started while it is set skips the reconciler even with force unset and
\* clears it; a fetchStats started while it is unset, with force unset,
\* consults the reconciler.
C28_OneShotBypass ==
    /\ ~skipCacheRef
    /\ [][/\ ResetStep => skipCacheRef'
          /\ \A i \in Slots :
                StartsFetch(i) =>
                    /\ ~skipCacheRef'
                    /\ skipCacheRef =>
                          /\ ~inv'[i].consulted
                          /\ inv'[i].pc = "awaitFetch"
                    /\ (~skipCacheRef /\ ~inv'[i].force) =>
                          /\ inv'[i].consulted
                          /\ inv'[i].pc = "awaitReconciler"
          /\ (~ResetStep /\ \A i \in Slots : ~StartsFetch(i)) =>
                skipCacheRef' = skipCacheRef]_vars

\* after a reset() one fetchStats with force unset has skipped the
\* reconciler and the next one, also with force unset, has consulted it
C28_Witness ==
    \E i, j \in Slots :
        /\ i < j
        /\ inv[i].pc # "idle" /\ ~inv[i].force /\ inv[i].shouldSkipCache
        /\ ~inv[i].consulted
        /\ inv[j].pc # "idle" /\ ~inv[j].force /\ inv[j].consulted

----------------------------------------------------------------------------
(* Properties of the outcome of fetchStats (SpecCache)                     *)

\* invocation i ends in the catch block in this step
Fails(i) == Completes(i) /\ inv'[i].pc = "failed"

\* invocation i ends with setStats in this step
Succeeds(i) == Completes(i) /\ inv'[i].pc = "done"

\* no other invocation of fetchStats has been started
OnlyCall(i) == \A j \in Slots : j # i => inv[j].pc = "idle"

----------------------------------------------------------------------------
(* Properties of the fetcher singleton (SpecLifecycle)                     *)

LiveInstances == {id \in InstanceIds : instances[id] = "live"}

\* C30: at any time at most one fetcher instance is live, and it is the one
\* initFetcher returns, on every call until shutdownFetcher is called;
\* shutdownFetcher with no live instance changes nothing; and no retrieval
\* call is made on an instance after it was shut down, neither by an
\* invocation of fetchNostrYearsStats that was in flight when reset()
\* called shutdownFetcher.
C30_FetcherLifecycle ==
    /\ Cardinality(LiveInstances) <= 1
    /\ fetcher # NoFetcher => LiveInstances = {fetcher}
    /\ fetcher = NoFetcher => LiveInstances = {}
    /\ fetcher # NoFetcher =>
          initFetcher(fetcher, instances) = [fetcher |-> fetcher, instances |-> instances]
    /\ fetcher = NoFetcher =>
          shutdownFetcher(fetcher, instances) = [fetcher |-> fetcher, instances |-> instances]
    /\ \A c \in retrievals : c.live

====
